---- MODULE Spec2Model ----
(***************************************************************************)
(* Model of the autocode task orchestration engine.                        *)
(*                                                                         *)
(* The plan directory .autocode/build/<plan>/ with its accepted/ and done/ *)
(* containers, the scheduler loop of autocode_orchestrate_resume, the      *)
(* per-task state machine executeTask, the fix-and-resume tool and the     *)
(* build tool that creates task directories.                               *)
(*                                                                         *)
(* Directory entry names are kept as a digit run and a name, so that the   *)
(* regular expressions of the source are decided on the characters of the  *)
(* name; agent messages are sequences of characters (verification) or of   *)
(* tokens (implementation), so that the verdict parsers are computed.      *)
(***************************************************************************)
EXTENDS Naturals, Integers, Sequences, FiniteSets, TLC

\* ------------------------------------------------------------------------
\* Bounds of the model
\* ------------------------------------------------------------------------
MaxPasses == 2

MaxSessions == 3

MaxAuthored == 2

MaxFixes == 1

MaxFaults == 1

\* prompts the agent service receives from execute_task calls
MaxSdkPrompts == 2

\* entries of a scanned directory
MaxEntries == 4

\* trees built from one directory state
MaxScans == 2

\* tasks handed to executeParallelTasks, and its limit
MaxParallelTasks == 4

MaxLimit == 3

\* ------------------------------------------------------------------------
\* Small utilities
\* ------------------------------------------------------------------------
Min(a, b) == IF a <= b THEN a ELSE b

Max(a, b) == IF a >= b THEN a ELSE b

\* Array.prototype.slice(0, n) / String.prototype.slice(0, n)
Slice(s, n) == SubSeq(s, 1, Min(n, Len(s)))

\* Array.prototype.slice(-n)
SliceLast(s, n) == SubSeq(s, Max(1, Len(s) - n + 1), Len(s))

\* Array.prototype.join over sequences of character/token sequences
RECURSIVE Join(_, _)
Join(parts, sep) ==
    IF parts = <<>> THEN <<>>
    ELSE IF Len(parts) = 1 THEN Head(parts)
    ELSE Head(parts) \o sep \o Join(Tail(parts), sep)

\* String.prototype.split on a one-character separator
RECURSIVE SplitAcc(_, _, _)
SplitAcc(s, sep, cur) ==
    IF s = <<>> THEN <<cur>>
    ELSE IF Head(s) = sep THEN <<cur>> \o SplitAcc(Tail(s), sep, <<>>)
    ELSE SplitAcc(Tail(s), sep, Append(cur, Head(s)))

Split(s, sep) == SplitAcc(s, sep, <<>>)

IsSpace(c) == c \in {" ", "\n", "\t"}

\* String.prototype.trim
RECURSIVE TrimLeft(_)
TrimLeft(s) ==
    IF s # <<>> /\ IsSpace(Head(s)) THEN TrimLeft(Tail(s)) ELSE s

RECURSIVE TrimRight(_)
TrimRight(s) ==
    IF s # <<>> /\ IsSpace(s[Len(s)]) THEN TrimRight(SubSeq(s, 1, Len(s) - 1)) ELSE s

Trim(s) == TrimRight(TrimLeft(s))

\* String.prototype.toUpperCase on the letters the messages use
UpperChar(c) ==
    CASE c = "a" -> "A" [] c = "f" -> "F" [] c = "i" -> "I" [] c = "l" -> "L"
      [] c = "p" -> "P" [] c = "s" -> "S" [] c = "o" -> "O" [] c = "k" -> "K"
      [] c = "n" -> "N" [] OTHER -> c

toUpperCase(s) == [i \in 1..Len(s) |-> UpperChar(s[i])]

\* String.prototype.includes
includes(s, pat) ==
    \E i \in 1..(Len(s) - Len(pat) + 1) : SubSeq(s, i, i + Len(pat) - 1) = pat

\* parseInt(digits, 10) of a decimal digit run
RECURSIVE parseInt(_)
parseInt(ds) ==
    IF ds = <<>> THEN 0 ELSE 10 * parseInt(SubSeq(ds, 1, Len(ds) - 1)) + ds[Len(ds)]

\* String(n) of a natural number, as its decimal digit run
RECURSIVE NumberToString(_)
NumberToString(n) ==
    IF n < 10 THEN <<n>> ELSE Append(NumberToString(n \div 10), n % 10)

\* ------------------------------------------------------------------------
\* Directory entries of accepted/ and done/
\*   an entry named <digits>-<name> is [d |-> digits, n |-> name];
\*   an entry without numeric prefix is [d |-> <<>>, n |-> name]
\* ------------------------------------------------------------------------
Entry(d, n) == [d |-> d, n |-> n]

\* /^\d{2}-/.test(e): exactly two digits, then the dash
HasTwoDigitPrefix(e) == Len(e.d) = 2

\* /^(\d+)-/ : a digit run of any width, then the dash
HasNumericPrefix(e) == Len(e.d) >= 1

\* parseInt(e.match(/^(\d+)/)?.[1] ?? "0", 10)
OrderOf(e) == IF e.d = <<>> THEN 0 ELSE parseInt(e.d)

\* the entries of a directory that findNextGroup considers
findNextGroupFilter(entries) == {e \in entries : HasTwoDigitPrefix(e)}

\* findNextGroup: the entries the sort can put first (the sort is stable, so
\* among entries of equal numeric prefix the directory listing order decides);
\* the empty set stands for null
findNextGroup(entries) ==
    LET numbered == findNextGroupFilter(entries)
    IN {e \in numbered : \A f \in numbered : OrderOf(e) <= OrderOf(f)}

\* /^\d{2}-concurrent_group$/.test(groupName)
isConcurrent(e) == HasTwoDigitPrefix(e) /\ e.n = "concurrent_group"

\* maxOrder: highest numeric prefix in a directory, -1 when there is none
maxOrder(entries) ==
    LET nums == {parseInt(e.d) : e \in {x \in entries : HasNumericPrefix(x)}}
    IN IF nums = {} THEN -1 ELSE CHOOSE m \in nums : \A k \in nums : k <= m

\* ------------------------------------------------------------------------
\* Agent messages and the verdict parsers
\*   MessageEntry = [role, parts], a part = [type, text]
\* ------------------------------------------------------------------------
Msg(role, parts) == [role |-> role, parts |-> parts]

Part(type, text) == [type |-> type, text |-> text]

IsAssistant(m) == m.role = "assistant"

IsTextPart(p) == p.type = "text"

PartText(parts) == [i \in 1..Len(parts) |-> parts[i].text]

\* the text of a message: its text parts joined by a newline
MessageText(m) == Join(PartText(SelectSeq(m.parts, IsTextPart)), <<"\n">>)

\* the last assistant message of a non-empty assistant list
LastOf(s) == s[Len(s)]

FAIL == <<"F", "A", "I", "L">>

NoTestResponse == <<"No assistant response found in test session.">>

\* extractTestResult
extractTestResult(messages) ==
    LET assistant == SelectSeq(messages, IsAssistant)
    IN IF Len(assistant) = 0
       THEN [passed |-> FALSE, reason |-> NoTestResponse]
       ELSE LET text == MessageText(LastOf(assistant))
            IN IF includes(toUpperCase(text), FAIL)
               THEN [passed |-> FALSE, reason |-> Slice(text, 1000)]
               ELSE [passed |-> TRUE, reason |-> Slice(text, 500)]

\* text.match(/<open>([\s\S]*?)<close>/): the captured group of the leftmost
\* match, as <<TRUE, content>>, or <<FALSE, <<>> >> when there is no match
TagMatch(text, open, close) ==
    LET starts == {i \in 1..Len(text) :
                      text[i] = open /\ \E j \in (i+1)..Len(text) : text[j] = close}
    IN IF starts = {} THEN <<FALSE, <<>> >>
       ELSE LET i == CHOOSE x \in starts : \A y \in starts : x <= y
                j == CHOOSE x \in (i+1)..Len(text) :
                        /\ text[x] = close
                        /\ \A y \in (i+1)..Len(text) : text[y] = close => x <= y
            IN <<TRUE, SubSeq(text, i + 1, j - 1)>>

NoExecuteResponse == <<"No assistant response found in execute session.">>

\* the captured group is returned without trim()
extractExecuteResultRaw(messages) ==
    LET assistant == SelectSeq(messages, IsAssistant)
    IN IF Len(assistant) = 0
       THEN [kind |-> "failure", content |-> NoExecuteResponse]
       ELSE LET text == MessageText(LastOf(assistant))
                failureMatch == TagMatch(text, "<failure>", "</failure>")
                successMatch == TagMatch(text, "<success>", "</success>")
            IN IF failureMatch[1]
               THEN [kind |-> "failure", content |-> failureMatch[2]]
               ELSE IF successMatch[1]
               THEN [kind |-> "success", content |-> successMatch[2]]
               ELSE [kind |-> "success", content |-> <<>>]

\* extractExecuteResult
extractExecuteResult(messages) ==
    LET assistant == SelectSeq(messages, IsAssistant)
    IN IF Len(assistant) = 0
       THEN [kind |-> "failure", content |-> NoExecuteResponse]
       ELSE LET text == MessageText(LastOf(assistant))
                failureMatch == TagMatch(text, "<failure>", "</failure>")
                successMatch == TagMatch(text, "<success>", "</success>")
            IN IF failureMatch[1]
               THEN [kind |-> "failure", content |-> Trim(failureMatch[2])]
               ELSE IF successMatch[1]
               THEN [kind |-> "success", content |-> Trim(successMatch[2])]
               ELSE [kind |-> "success", content |-> <<>>]

IsNonBlank(l) == Trim(l) # <<>>

\* lastNLines: the last n non-blank lines of a text
lastNLines(text, n) ==
    Join(SliceLast(SelectSeq(Split(text, "\n"), IsNonBlank), n), <<"\n">>)

\* the text handed to lastNLines by executeTask: the final assistant message
\* of the verification transcript, "" when there is none
lastAssistantText(messages) ==
    LET assistant == SelectSeq(messages, IsAssistant)
    IN IF Len(assistant) = 0 THEN <<>> ELSE MessageText(LastOf(assistant))

\* ------------------------------------------------------------------------
\* Session files of a task directory
\*   {task|test}.{success|failed}.<id>.md is [pre, st, id]; id is "" for a
\*   file named task.success..md
\* ------------------------------------------------------------------------
SessFile(pre, st, id) == [pre |-> pre, st |-> st, id |-> id]

\* extractSessionId: /^(?:task|test)\.(?:success|failed)\.(.+)\.md$/
extractSessionId(f) == IF f.id = "" THEN "unknown" ELSE f.id

\* a match on the bare prefix name, which no file carrying an id has
findSessionFileExact(files, pre, st) == {f \in files : f.pre = pre /\ f.st = st /\ f.id = ""}

\* findSessionFile: the files of a directory listing that match the prefix;
\* entries.find returns the first in listing order, so any of them; the
\* empty set stands for null
findSessionFile(files, pre, st) == {f \in files : f.pre = pre /\ f.st = st}

\* ------------------------------------------------------------------------
\* Task directories
\* ------------------------------------------------------------------------
NoWork == [has |-> FALSE]

\* a task directory: build.prompt.md and test.prompt.md present or not,
\* work.md, the session files, and the .skipped marker present or not
TaskDir(bp, tp, sf) ==
    [bp |-> bp, tp |-> tp, work |-> NoWork, sf |-> sf, skipped |-> FALSE]

\* a name inside a group directory; dot = the name starts with "."
Member(dot, n) == [dot |-> dot, n |-> n]

\* the group directory itself, when it is executed as a single task
Self == Member(FALSE, "")

NoKids == [m \in {} |-> TaskDir(FALSE, FALSE, {})]

\* an entry of accepted/ or done/: its own files and its sub-directories
Leaf(dir) == [own |-> dir, kids |-> NoKids]

Group(kids) == [own |-> TaskDir(FALSE, FALSE, {}), kids |-> kids]

\* writeFile of a session file into a task directory
AddFile(dir, f) == [dir EXCEPT !.sf = @ \cup {f}]

\* ------------------------------------------------------------------------
\* The agent execution service: session ids and the transcripts it returns
\* ------------------------------------------------------------------------
SessionIds == <<"s1", "s2", "s3", "s4", "s5", "s6", "s7", "s8">>

ErrMessage == <<"session error">>

ENOENT == <<"ENOENT">>

User(text) == Msg("user", <<Part("text", text)>>)

Assistant(text) == Msg("assistant", <<Part("text", text)>>)

\* transcripts an implementation session can return (token sequences)
BuildTranscripts ==
    { <<>>,
      <<User(<<"do">>), Assistant(<<"ok">>)>>,
      <<User(<<"do">>), Assistant(<<"<success>", " ", "w", " ", "</success>">>)>>,
      <<User(<<"do">>), Assistant(<<"x", "<failure>", " ", "fix", "it", "</failure>">>)>> }

\* transcripts of a build session after the prompt sent by fix_task
FixTranscripts ==
    { <<User(<<"do">>), Assistant(<<"<success>", " ", "w", " ", "</success>">>)>>,
      <<User(<<"do">>), Assistant(<<"x", "<failure>", " ", "fix", "it", "</failure>">>)>> }

\* transcripts a verification session can return (character sequences)
TestTranscripts ==
    { <<>>,
      <<User(<<"t">>), Assistant(<<"P", "A", "S", "S">>)>>,
      <<User(<<"t">>), Assistant(<<"o", "k", "\n", " ", "\n", "F", "A", "I", "L">>)>>,
      <<User(<<"t">>), Assistant(<<"o", "k">>)>> }

\* ------------------------------------------------------------------------
\* State
\* ------------------------------------------------------------------------
VARIABLES
    stage,      \* the stage containers that hold a directory of the plan's name
    acc,        \* accepted/: entry -> [own, kids]
    done,       \* done/: entry -> [own, kids]
    rpc,        \* position of autocode_orchestrate_resume: "idle", "loop", "wait"
    cur,        \* groupName of the group being executed
    ex,         \* executeTask calls of the current group: member -> call state
    rres,       \* value returned (or error raised) by the last resume
    sessions,   \* sessions created on the agent service, in creation order
    pass,       \* number of resume invocations so far
    authored,   \* number of autocode_build_create_next_task calls so far
    fixes,      \* number of autocode_orchestrate_fix_task calls so far
    fres,       \* arguments and value returned by the last fix_task
    faults      \* number of writeFile calls that failed so far

\* the plan driven through the tools of .opencode/tool (autocode.ts and
\* autocode-sdk.ts)
VARIABLES
    planDir,    \* accepted/, busy/ and tested/: what readdir returns for each, in its
                \* order, and which of the three containers exist
    meta,       \* the file .session.json
    sdk,        \* execute_task calls in flight: task -> [type, sessionId]
    svc,        \* the agent service: sessions created, active and asked to abort, and
                \* per task the executions that ended with an error
    abort,      \* what the last abort_plan_sessions found and did
    sres        \* value returned (or error raised) by the last call into state.ts

orchVars == <<stage, acc, done, rpc, cur, ex, rres, sessions, pass, authored, fixes, fres, faults>>

sdkVars == <<planDir, meta, sdk, svc, abort, sres>>

\* the directory scanner (scanTaskTree, organizeIntoTree, findNextInTree)
VARIABLES
    tree,       \* the TaskTree last built from accepted/
    scans,      \* number of trees built so far
    found,      \* what the last next_task found
    par         \* executeParallelTasks (sdk/orchestrator.ts): its position, the loop
                \* index, the set `executing` and the executeTask calls in flight

scanVars == <<tree, scans, found, par>>

vars == <<orchVars, sdkVars, scanVars>>

\* ------------------------------------------------------------------------
\* Plans found on disk when the model starts
\* ------------------------------------------------------------------------
EmptyDir == [e \in {} |-> Leaf(TaskDir(FALSE, FALSE, {}))]

MemberA == Member(FALSE, "A")

MemberB == Member(FALSE, "B")

MemberHidden == Member(TRUE, "keep")

\* 5-a and 10-b, written without zero padding
PlanUnpadded ==
    (Entry(<<5>>, "a") :> Leaf(TaskDir(TRUE, FALSE, {})))
    @@ (Entry(<<1, 0>>, "b") :> Leaf(TaskDir(TRUE, FALSE, {})))

\* 01-t holding only test.prompt.md and the transcript of an earlier build
PlanRebuilt ==
    (Entry(<<0, 1>>, "t") :> Leaf(TaskDir(FALSE, TRUE, {SessFile("task", "success", "old")})))

\* 01-t holding only test.prompt.md
PlanNoPrompt ==
    (Entry(<<0, 1>>, "t") :> Leaf(TaskDir(FALSE, TRUE, {})))

\* 01-concurrent_group with members A and B, between 00-setup and 02-last,
\* both built by an earlier pass
PlanGroup ==
    (Entry(<<0, 0>>, "setup") :> Leaf(TaskDir(TRUE, FALSE, {SessFile("task", "success", "old")})))
    @@ (Entry(<<0, 1>>, "concurrent_group") :>
            Group((MemberA :> TaskDir(TRUE, FALSE, {}))
                  @@ (MemberB :> TaskDir(FALSE, TRUE, {SessFile("task", "success", "old")}))
                  @@ (MemberHidden :> TaskDir(FALSE, FALSE, {}))))
    @@ (Entry(<<0, 2>>, "last") :> Leaf(TaskDir(TRUE, FALSE, {SessFile("task", "success", "old")})))

\* 03-a beside an entry without prefix and one with three digits
PlanOdd ==
    (Entry(<<0, 3>>, "a") :> Leaf(TaskDir(TRUE, TRUE, {})))
    @@ (Entry(<<>>, "zz") :> Leaf(TaskDir(TRUE, FALSE, {})))
    @@ (Entry(<<1, 0, 0>>, "c") :> Leaf(TaskDir(TRUE, FALSE, {})))

\* 01-s carrying the .skipped marker
PlanSkipped ==
    (Entry(<<0, 1>>, "s") :> Leaf([TaskDir(TRUE, FALSE, {}) EXCEPT !.skipped = TRUE]))

InitialPlans ==
    {EmptyDir, PlanUnpadded, PlanRebuilt, PlanNoPrompt, PlanGroup, PlanOdd, PlanSkipped}

NoEntry == Entry(<<>>, "")

NoFailure == [failureType |-> "none"]

NoCalls == [m \in {} |-> [pc |-> "ok"]]

\* the task directories of the plan driven through the tools: 0-a, named as
\* the tools' descriptions name tasks, and 01-b, named as the build agent
\* names the groups of autocode_orchestrate_resume
SdkTasks == {Entry(<<0>>, "a"), Entry(<<0, 1>>, "b")}

\* a directory entry as the scanner sees it: its name, whether it holds the
\* .skipped marker, and the entries readdir returns for it
TaskEntry(e, skipped, sub) == [e |-> e, skipped |-> skipped, sub |-> sub]

\* no call in flight, nothing aborted, no call into state.ts yet
SdkStart ==
    /\ sdk = [t \in {} |-> [type |-> "build"]]
    /\ svc = [created |-> 0, prompts |-> 0, active |-> {}, aborted |-> {},
              failed |-> [t \in SdkTasks |-> 0]]
    /\ abort = [kind |-> "none"]
    /\ sres = [kind |-> "none"]

\* nothing scanned yet
NoTree == [kind |-> "none"]

ScanStart ==
    /\ tree = NoTree /\ scans = 0 /\ found = [status |-> "none", tasks |-> <<>>]
    /\ par = [pc |-> "none"]

\* no plan of that name under build/, no .session.json
NoPlanDir ==
    /\ planDir = [accepted |-> <<>>, busy |-> <<>>, tested |-> <<>>, done |-> <<>>,
                  dirs |-> {}]
    /\ meta = [kind |-> "missing"]

Init ==
    /\ SdkStart /\ ScanStart /\ NoPlanDir
    /\ stage = {"build"}
    /\ acc \in InitialPlans
    /\ done = EmptyDir
    /\ rpc = "idle"
    /\ cur = NoEntry
    /\ ex = NoCalls
    /\ rres = [kind |-> "none"]
    /\ sessions = <<>>
    /\ pass = 0
    /\ authored = 0
    /\ fixes = 0
    /\ fres = [kind |-> "none"]
    /\ faults = 0

\* ------------------------------------------------------------------------
\* writeFile: a write can fail (disk full, directory gone); the number of
\* failing writes per behaviour is bounded by MaxFaults
\* ------------------------------------------------------------------------
WriteOutcomes == IF faults < MaxFaults THEN BOOLEAN ELSE {TRUE}

Faulted(ok) == IF ok THEN faults ELSE faults + 1

\* ------------------------------------------------------------------------
\* autocode_build_create_next_task (src/tools/build.ts)
\* ------------------------------------------------------------------------
TaskNames == {"setup"}

\* the directory name `${order}-${args.task_name}`
nextTaskEntry(entries, task_name) == Entry(NumberToString(maxOrder(entries) + 1), task_name)

\* mkdir, then build.prompt.md, then test.prompt.md when a test prompt is
\* given; a failing write ends the call with the directory as written so far.
\* The plan is authored before it is orchestrated.
autocode_build_create_next_task(task_name, hasTest, ok) ==
    /\ "build" \in stage /\ rpc = "idle" /\ pass = 0
    /\ authored < MaxAuthored /\ Cardinality(DOMAIN acc) = authored
    /\ LET e == nextTaskEntry(DOMAIN acc, task_name)
           dir == IF hasTest THEN TaskDir(TRUE, ok, {}) ELSE TaskDir(ok, FALSE, {})
       IN acc' = (e :> Leaf(dir)) @@ acc
    /\ authored' = authored + 1
    /\ faults' = Faulted(ok)
    /\ UNCHANGED <<stage, done, rpc, cur, ex, rres, sessions, pass, fixes, fres>>

\* ------------------------------------------------------------------------
\* executeTask: one call per member of the current group
\* ------------------------------------------------------------------------
Failure(type, sid, bsid, details, file) ==
    [failureType |-> type, sessionId |-> sid, buildSessionId |-> bsid,
     failureDetails |-> details, sessionFile |-> file]

NoTranscript == <<Msg("none", <<>>)>>

\* the state of a call: its position, the locals sid, buildSessionId and
\* testSid, the failure it returned; and, for the record, the invocation
\* that made the call, the session files its directory held when it was
\* called and the transcripts it read
NewCall(dir) ==
    [pc |-> "start", sid |-> "error", bsid |-> "", tsid |-> "error", fail |-> NoFailure,
     pass |-> pass, seen |-> dir.sf, buildMessages |-> NoTranscript, testMessages |-> NoTranscript]

Settled(c) == c.pc \in {"ok", "fail", "threw"}

\* the task directory of member m of the current group
taskDir(m) == IF m = Self THEN acc[cur].own ELSE acc[cur].kids[m]

\* accepted/ after the task directory of member m became d
WithTaskDir(m, d) ==
    IF m = Self THEN [acc EXCEPT ![cur].own = d] ELSE [acc EXCEPT ![cur].kids[m] = d]

\* a writeFile of session file f into the task directory of m
Write(m, f, ok) ==
    /\ acc' = IF ok THEN WithTaskDir(m, AddFile(taskDir(m), f)) ELSE acc
    /\ faults' = Faulted(ok)

NoWrite == acc' = acc /\ faults' = faults

Return(m, failure) == [ex EXCEPT ![m].pc = "fail", ![m].fail = failure]

\* a read whose error is swallowed into an empty prompt
readBuildPromptLenient(dir) == TRUE

\* readFile(build.prompt.md) succeeds
readBuildPrompt(dir) == dir.bp

\* a start that does not look for the transcript of an earlier build
ExecStartNoReuse(m) ==
    /\ m \in DOMAIN ex /\ ex[m].pc = "start"
    /\ IF ~readBuildPrompt(taskDir(m))
       THEN \E ok \in WriteOutcomes :
               LET failFile == SessFile("task", "failed", "read_error")
               IN /\ Write(m, failFile, ok)
                  /\ ex' = Return(m, Failure("tool_error", "read_error", "read_error",
                                             ENOENT, failFile))
       ELSE /\ ex' = [ex EXCEPT ![m].pc = "bcreate"]
            /\ NoWrite
    /\ UNCHANGED <<stage, done, rpc, cur, rres, sessions, pass, authored, fixes, fres>>

\* lines 304-327: reuse of an earlier build, or the read of build.prompt.md
ExecStart(m) ==
    /\ m \in DOMAIN ex /\ ex[m].pc = "start"
    /\ LET existingBuildSuccess == findSessionFile(taskDir(m).sf, "task", "success")
       IN IF existingBuildSuccess # {}
          THEN /\ \E f \in existingBuildSuccess :
                     ex' = [ex EXCEPT ![m].bsid = extractSessionId(f), ![m].pc = "tcheck"]
               /\ NoWrite
          ELSE IF ~readBuildPrompt(taskDir(m))
          THEN \E ok \in WriteOutcomes :
                  LET failFile == SessFile("task", "failed", "read_error")
                  IN /\ Write(m, failFile, ok)
                     /\ ex' = Return(m, Failure("tool_error", "read_error", "read_error",
                                                ENOENT, failFile))
          ELSE /\ ex' = [ex EXCEPT ![m].pc = "bcreate"]
               /\ NoWrite
    /\ UNCHANGED <<stage, done, rpc, cur, rres, sessions, pass, authored, fixes, fres>>

\* a catch that reports the error as a verdict of the agent
BuildCatchAsVerdict(m, sid) ==
    \E ok \in WriteOutcomes :
        LET failFile == SessFile("task", "failed", sid)
        IN /\ Write(m, failFile, ok)
           /\ ex' = Return(m, Failure("execute_failure", sid, sid, ErrMessage, failFile))

\* lines 386-402: the catch of the build step
BuildCatch(m, sid) ==
    \E ok \in WriteOutcomes :
        LET failFile == SessFile("task", "failed", sid)
        IN /\ Write(m, failFile, ok)
           /\ ex' = Return(m, Failure("task_session", sid, sid, ErrMessage, failFile))

NewSession(title, m) == [id |-> SessionIds[Len(sessions) + 1], title |-> title,
                         group |-> cur, member |-> m, pass |-> pass, prompts |-> <<>>]

SessionIndex(id) == CHOOSE i \in 1..Len(sessions) : sessions[i].id = id

Prompted(id, agent) ==
    [sessions EXCEPT ![SessionIndex(id)].prompts = Append(@, agent)]

\* lines 331-335: client.session.create for the build
BuildCreate(m) ==
    /\ m \in DOMAIN ex /\ ex[m].pc = "bcreate"
    /\ \/ /\ Len(sessions) < MaxSessions
          /\ sessions' = Append(sessions, NewSession("Execute", m))
          /\ ex' = [ex EXCEPT ![m].sid = SessionIds[Len(sessions) + 1], ![m].pc = "bprompt"]
          /\ NoWrite
       \/ /\ BuildCatch(m, ex[m].sid)
          /\ sessions' = sessions
    /\ UNCHANGED <<stage, done, rpc, cur, rres, pass, authored, fixes, fres>>

\* lines 337-344: client.session.prompt with agent "explore"
BuildPrompt(m) ==
    /\ m \in DOMAIN ex /\ ex[m].pc = "bprompt"
    /\ sessions' = Prompted(ex[m].sid, "explore")
    /\ \/ /\ ex' = [ex EXCEPT ![m].pc = "bmsgs"]
          /\ NoWrite
       \/ BuildCatch(m, ex[m].sid)
    /\ UNCHANGED <<stage, done, rpc, cur, rres, pass, authored, fixes, fres>>

\* work.md after the best-effort write of the summary
WorkFile(content, ok, old) == IF ok THEN [has |-> TRUE, text |-> content] ELSE old

\* a verdict without content (no marker found) taken as a failure too
buildFailedStrict(executeResult) ==
    executeResult.kind = "failure" \/ executeResult.content = <<>>

\* the build counts as failed exactly when the parsed verdict is a failure
buildFailed(executeResult) == executeResult.kind = "failure"

\* a failure verdict that is recorded without ending the call
BuildVerdictNoReturn(m, buildMessages, executeResult) ==
    \E ok \in WriteOutcomes :
        /\ Write(m, SessFile("task", "failed", ex[m].sid), ok)
        /\ ex' = [ex EXCEPT ![m].buildMessages = buildMessages,
                            ![m].bsid = ex[m].sid, ![m].pc = "tcheck"]

\* treatment of the verdict parsed from the build transcript (lines 352-385):
\* the write of task.success.<sid>.md is inside the try, the one of work.md
\* is best effort
BuildVerdict(m, buildMessages, executeResult) ==
    LET sid == ex[m].sid
        read == [ex EXCEPT ![m].buildMessages = buildMessages]
    IN IF buildFailed(executeResult)
       THEN \E ok \in WriteOutcomes :
               LET failFile == SessFile("task", "failed", sid)
               IN /\ Write(m, failFile, ok)
                  /\ ex' = [read EXCEPT ![m].pc = "fail",
                                         ![m].fail = Failure("execute_failure", sid, sid,
                                                             executeResult.content, failFile)]
       ELSE \/ \E okWork \in WriteOutcomes :
                  LET d == AddFile(taskDir(m), SessFile("task", "success", sid))
                  IN /\ acc' = WithTaskDir(m, [d EXCEPT !.work =
                                                 WorkFile(executeResult.content, okWork, @)])
                     /\ faults' = Faulted(okWork)
                     /\ ex' = [read EXCEPT ![m].bsid = sid, ![m].pc = "tcheck"]
            \/ /\ faults < MaxFaults
               /\ \E ok \in (IF faults + 1 < MaxFaults THEN BOOLEAN ELSE {TRUE}) :
                     LET failFile == SessFile("task", "failed", sid)
                     IN /\ acc' = IF ok THEN WithTaskDir(m, AddFile(taskDir(m), failFile)) ELSE acc
                        /\ faults' = IF ok THEN faults + 1 ELSE faults + 2
                        /\ ex' = [read EXCEPT ![m].pc = "fail",
                                               ![m].fail = Failure("task_session", sid, sid,
                                                                   ErrMessage, failFile)]

\* lines 346-385: client.session.messages, the verdict and its files
BuildMessages(m) ==
    /\ m \in DOMAIN ex /\ ex[m].pc = "bmsgs"
    /\ \/ \E buildMessages \in BuildTranscripts :
              BuildVerdict(m, buildMessages, extractExecuteResult(buildMessages))
       \/ BuildCatch(m, ex[m].sid)
    /\ UNCHANGED <<stage, done, rpc, cur, rres, sessions, pass, authored, fixes, fres>>

\* a check that looks at test.prompt.md only
TestCheckPromptOnly(m) ==
    /\ m \in DOMAIN ex /\ ex[m].pc = "tcheck"
    /\ IF ~taskDir(m).tp
       THEN ex' = [ex EXCEPT ![m].pc = "ok"]
       ELSE ex' = [ex EXCEPT ![m].pc = "tcreate"]
    /\ UNCHANGED <<stage, acc, done, rpc, cur, rres, sessions, pass, authored, fixes, fres, faults>>

\* lines 407-417: test.prompt.md absent, or verification already passed
TestCheck(m) ==
    /\ m \in DOMAIN ex /\ ex[m].pc = "tcheck"
    /\ LET existingTestSuccess == findSessionFile(taskDir(m).sf, "test", "success")
       IN IF ~taskDir(m).tp \/ existingTestSuccess # {}
          THEN ex' = [ex EXCEPT ![m].pc = "ok"]
          ELSE ex' = [ex EXCEPT ![m].pc = "tcreate"]
    /\ UNCHANGED <<stage, acc, done, rpc, cur, rres, sessions, pass, authored, fixes, fres, faults>>

\* a catch that reports the verification session as the build session
TestCatchOwnId(m, testSid) ==
    \E ok \in WriteOutcomes :
        LET failFile == SessFile("test", "failed", testSid)
        IN /\ Write(m, failFile, ok)
           /\ ex' = Return(m, Failure("test_session", testSid, testSid, ErrMessage, failFile))

\* lines 442-458: the catch of the test step
TestCatch(m, testSid) ==
    \E ok \in WriteOutcomes :
        LET failFile == SessFile("test", "failed", testSid)
        IN /\ Write(m, failFile, ok)
           /\ ex' = Return(m, Failure("test_session", testSid, ex[m].bsid, ErrMessage, failFile))

\* lines 422-426: client.session.create for the verification
TestCreate(m) ==
    /\ m \in DOMAIN ex /\ ex[m].pc = "tcreate"
    /\ \/ /\ Len(sessions) < MaxSessions
          /\ sessions' = Append(sessions, NewSession("Test", m))
          /\ ex' = [ex EXCEPT ![m].tsid = SessionIds[Len(sessions) + 1], ![m].pc = "tprompt"]
          /\ NoWrite
       \/ /\ TestCatch(m, ex[m].tsid)
          /\ sessions' = sessions
    /\ UNCHANGED <<stage, done, rpc, cur, rres, pass, authored, fixes, fres>>

\* lines 428-435: client.session.prompt with agent "test"
TestPrompt(m) ==
    /\ m \in DOMAIN ex /\ ex[m].pc = "tprompt"
    /\ sessions' = Prompted(ex[m].tsid, "test")
    /\ \/ /\ ex' = [ex EXCEPT ![m].pc = "tmsgs"]
          /\ NoWrite
       \/ TestCatch(m, ex[m].tsid)
    /\ UNCHANGED <<stage, done, rpc, cur, rres, pass, authored, fixes, fres>>

\* the verification counts as passed exactly when the parser says so
testPassed(result) == result.passed

\* treatment of the verification verdict (lines 460-489); the two writes are
\* awaited outside any try, so a failing write rejects the call
TestVerdict(m, testMessages, result, ok) ==
    LET testSid == ex[m].tsid
        failFile == SessFile("test", "failed", testSid)
        read == [ex EXCEPT ![m].testMessages = testMessages]
    IN /\ IF ok
          THEN IF testPassed(result)
               THEN ex' = [read EXCEPT ![m].pc = "ok"]
               ELSE ex' = [read EXCEPT ![m].pc = "fail",
                                       ![m].fail = Failure("test_verification", testSid, ex[m].bsid,
                                            lastNLines(lastAssistantText(testMessages), 20),
                                            failFile)]
          ELSE ex' = [read EXCEPT ![m].pc = "threw"]
       /\ Write(m, IF testPassed(result) THEN SessFile("test", "success", testSid) ELSE failFile, ok)

\* lines 437-489: client.session.messages, the verdict and its files
TestMessages(m) ==
    /\ m \in DOMAIN ex /\ ex[m].pc = "tmsgs"
    /\ \/ \E testMessages \in TestTranscripts, ok \in WriteOutcomes :
              TestVerdict(m, testMessages, extractTestResult(testMessages), ok)
       \/ TestCatch(m, ex[m].tsid)
    /\ UNCHANGED <<stage, done, rpc, cur, rres, sessions, pass, authored, fixes, fres>>

\* ------------------------------------------------------------------------
\* autocode_orchestrate_resume
\* ------------------------------------------------------------------------
AllSettled == \A m \in DOMAIN ex : Settled(ex[m])

\* the tool is invoked; one orchestrator drives the plan at a time, so not
\* while task executions of an earlier invocation are still running
ResumeCall ==
    /\ rpc = "idle" /\ AllSettled
    /\ pass < MaxPasses
    /\ pass' = pass + 1
    /\ rpc' = "loop"
    /\ rres' = [kind |-> "pending"]
    /\ UNCHANGED <<stage, acc, done, cur, ex, sessions, authored, fixes, fres, faults>>

\* readdir(acceptedDir).catch(() => []): empty when the plan is not in build/
acceptedEntries == IF "build" \in stage THEN DOMAIN acc ELSE {}

\* subEntries.filter(e => !e.startsWith("."))
taskNames(groupName) ==
    IF isConcurrent(groupName)
    THEN {m \in DOMAIN acc[groupName].kids : ~m.dot}
    ELSE {Self}

\* lines 530-556 and 580: the next group, promotion when there is none
\* (rename of the plan directory fails when it is not under build/, and
\* when review/ already holds a directory of that name with files in it)
ResumeLoop ==
    /\ rpc = "loop"
    /\ LET next == findNextGroup(acceptedEntries)
       IN IF next = {}
          THEN /\ IF "build" \in stage /\ "review" \notin stage
                  THEN /\ stage' = (stage \ {"build"}) \cup {"review"}
                       /\ rres' = [kind |-> "done", done |-> TRUE]
                  ELSE /\ stage' = stage
                       /\ rres' = [kind |-> "raised"]
               /\ rpc' = "idle"
               /\ UNCHANGED <<cur, ex>>
          ELSE /\ \E groupName \in next :
                     /\ cur' = groupName
                     /\ ex' = [m \in taskNames(groupName) |->
                                 NewCall(IF m = Self THEN acc[groupName].own
                                         ELSE acc[groupName].kids[m])]
               /\ rpc' = "wait"
               /\ UNCHANGED <<stage, rres>>
    /\ UNCHANGED <<acc, done, sessions, pass, authored, fixes, fres, faults>>

\* results.find in place of results.filter: at most one failure is kept
failuresFirstOnly(calls) ==
    LET all == {m \in DOMAIN calls : calls[m].fail # NoFailure}
    IN IF all = {} THEN {} ELSE {CHOOSE m \in all : TRUE}

\* results.filter(r => r.failure !== null)
failures(calls) == {m \in DOMAIN calls : calls[m].fail # NoFailure}

TaskName(groupName, m) == <<groupName, m>>

\* one element of the failures array of the report
FailureReport(groupName, m, f) ==
    [task_name |-> TaskName(groupName, m), session_id |-> f.sessionId,
     build_session_id |-> f.buildSessionId, failure_type |-> f.failureType,
     failure_details |-> f.failureDetails, sessionFile |-> f.sessionFile]

\* the value returned when the group did not complete
Report(groupName, calls) ==
    IF isConcurrent(groupName)
    THEN [kind |-> "group", done |-> FALSE, success |-> FALSE, group |-> groupName,
          failures |-> {FailureReport(groupName, m, calls[m].fail) : m \in failures(calls)}]
    ELSE [kind |-> "task", done |-> FALSE, success |-> FALSE,
          report |-> FailureReport(groupName, Self, calls[Self].fail)]

\* a copy in place of the rename: the group also stays in accepted/
MoveToDoneCopy(groupName) ==
    /\ done' = (groupName :> acc[groupName]) @@ done
    /\ acc' = acc

\* rename(groupDir, done/groupName)
MoveToDone(groupName) ==
    /\ done' = (groupName :> acc[groupName]) @@ done
    /\ acc' = [e \in DOMAIN acc \ {groupName} |-> acc[e]]

\* a loop that goes round with the executed group still in accepted/
ResumeAwaitKeepsGroup ==
    /\ rpc = "wait"
    /\ IF \E m \in DOMAIN ex : ex[m].pc = "threw"
       THEN rres' = [kind |-> "raised"] /\ rpc' = "idle"
       ELSE /\ AllSettled
            /\ IF failures(ex) # {}
               THEN rres' = Report(cur, ex) /\ rpc' = "idle"
               ELSE rres' = rres /\ rpc' = "loop"
    /\ UNCHANGED <<stage, acc, done, cur, ex, sessions, pass, authored, fixes, fres, faults>>

\* an await that goes round the loop again after a failure
ResumeAwaitRetry ==
    /\ rpc = "wait"
    /\ IF \E m \in DOMAIN ex : ex[m].pc = "threw"
       THEN /\ rres' = [kind |-> "raised"]
            /\ rpc' = "idle"
            /\ UNCHANGED <<acc, done>>
       ELSE /\ AllSettled
            /\ IF failures(ex) # {}
               THEN /\ rres' = Report(cur, ex)
                    /\ rpc' = "loop"
                    /\ UNCHANGED <<acc, done>>
               ELSE /\ MoveToDone(cur)
                    /\ rpc' = "loop"
                    /\ rres' = rres
    /\ UNCHANGED <<stage, cur, ex, sessions, pass, authored, fixes, fres, faults>>

\* lines 549-597: the await of the group; Promise.all (and the await of a
\* single executeTask) rejects as soon as one call rejects, and fulfils once
\* every call has fulfilled
ResumeAwait ==
    /\ rpc = "wait"
    /\ IF \E m \in DOMAIN ex : ex[m].pc = "threw"
       THEN /\ rres' = [kind |-> "raised"]
            /\ rpc' = "idle"
            /\ UNCHANGED <<acc, done>>
       ELSE /\ AllSettled
            /\ IF failures(ex) # {}
               THEN /\ rres' = Report(cur, ex)
                    /\ rpc' = "idle"
                    /\ UNCHANGED <<acc, done>>
               ELSE /\ MoveToDone(cur)
                    /\ rpc' = "loop"
                    /\ rres' = rres
    /\ UNCHANGED <<stage, cur, ex, sessions, pass, authored, fixes, fres, faults>>

\* ------------------------------------------------------------------------
\* autocode_orchestrate_fix_task
\* ------------------------------------------------------------------------
\* the (task_name, build_session_id) pairs of the failure response of the
\* last resume, from which the caller takes the arguments
FixArguments ==
    IF rres.kind = "task"
    THEN {<<rres.report.task_name, rres.report.build_session_id>>}
    ELSE IF rres.kind = "group"
    THEN {<<r.task_name, r.build_session_id>> : r \in rres.failures}
    ELSE {}

SessionExists(id) == \E i \in 1..Len(sessions) : sessions[i].id = id

\* taskDirPath(...) names an existing directory under build/<plan>/accepted/
AcceptedHas(task_name) ==
    /\ "build" \in stage
    /\ task_name[1] \in DOMAIN acc
    /\ task_name[2] = Self \/ task_name[2] \in DOMAIN acc[task_name[1]].kids

\* the summary returned by fix_task
fixSummary(messages) ==
    LET assistant == SelectSeq(messages, IsAssistant)
    IN IF Len(assistant) > 0
       THEN Slice(MessageText(LastOf(assistant)), 500)
       ELSE <<"(no response)">>

\* the fix transcript written as task.failed.<session_id>.md
FixWriteFailed(task_name, session_id) ==
    LET g == task_name[1]
        m == task_name[2]
        f == SessFile("task", "failed", session_id)
    IN IF m = Self
       THEN [acc EXCEPT ![g].own = AddFile(@, f)]
       ELSE [acc EXCEPT ![g].kids[m] = AddFile(@, f)]

\* accepted/ after fix_task wrote task.success.<session_id>.md
FixWrite(task_name, session_id) ==
    LET g == task_name[1]
        m == task_name[2]
        f == SessFile("task", "success", session_id)
    IN IF m = Self
       THEN [acc EXCEPT ![g].own = AddFile(@, f)]
       ELSE [acc EXCEPT ![g].kids[m] = AddFile(@, f)]

\* a catch that answers success:true
FixFailedAsSuccess(task_name, session_id) ==
    [kind |-> "fix", task_name |-> task_name, session_id |-> session_id,
     success |-> TRUE, pass |-> pass]

FixFailed(task_name, session_id) ==
    [kind |-> "fix", task_name |-> task_name, session_id |-> session_id,
     success |-> FALSE, pass |-> pass]

\* lines 635-675, one call: prompt, messages, write of the transcript
autocode_orchestrate_fix_task(task_name, session_id) ==
    /\ rpc = "idle" /\ AllSettled
    /\ fixes < MaxFixes
    /\ fixes' = fixes + 1
    /\ IF ~SessionExists(session_id)
       THEN /\ fres' = FixFailed(task_name, session_id)
            /\ UNCHANGED <<acc, sessions, faults>>
       ELSE /\ sessions' = Prompted(session_id, "explore")
            /\ \/ /\ fres' = FixFailed(task_name, session_id)
                  /\ UNCHANGED <<acc, faults>>
               \/ \E messages \in FixTranscripts, ok \in WriteOutcomes :
                     /\ faults' = Faulted(ok)
                     /\ IF ok /\ AcceptedHas(task_name)
                        THEN /\ acc' = FixWrite(task_name, session_id)
                             /\ fres' = [kind |-> "fix", task_name |-> task_name,
                                         session_id |-> session_id, success |-> TRUE,
                                         summary |-> fixSummary(messages),
                                         sessionFile |-> SessFile("task", "success", session_id),
                                         pass |-> pass]
                        ELSE /\ fres' = FixFailed(task_name, session_id)
                             /\ acc' = acc
    /\ UNCHANGED <<stage, done, rpc, cur, ex, rres, pass, authored>>

\* ------------------------------------------------------------------------
\* Specification
\* ------------------------------------------------------------------------
Members == {Self, MemberA, MemberB}

Next ==
    /\ UNCHANGED <<sdkVars, scanVars>>
    /\ \/ \E n \in TaskNames, hasTest \in BOOLEAN, ok \in WriteOutcomes :
             autocode_build_create_next_task(n, hasTest, ok)
       \/ ResumeCall
       \/ ResumeLoop
       \/ ResumeAwait
       \/ \E m \in Members : ExecStart(m)
       \/ \E m \in Members : BuildCreate(m)
       \/ \E m \in Members : BuildPrompt(m)
       \/ \E m \in Members : BuildMessages(m)
       \/ \E m \in Members : TestCheck(m)
       \/ \E m \in Members : TestCreate(m)
       \/ \E m \in Members : TestPrompt(m)
       \/ \E m \in Members : TestMessages(m)
       \/ \E a \in FixArguments : autocode_orchestrate_fix_task(a[1], a[2])

Spec == Init /\ [][Next]_vars

\* the same program when the event loop keeps running and every call to the
\* agent service returns: a step of the resume loop or of a task execution
\* that can be taken is taken
FairSpec ==
    /\ Init /\ [][Next]_vars
    /\ WF_vars(/\ UNCHANGED <<sdkVars, scanVars>>
               /\ \/ ResumeLoop
                  \/ ResumeAwait
                  \/ \E m \in Members :
                        \/ ExecStart(m) \/ BuildCreate(m) \/ BuildPrompt(m)
                        \/ BuildMessages(m) \/ TestCheck(m) \/ TestCreate(m)
                        \/ TestPrompt(m) \/ TestMessages(m))

\* ------------------------------------------------------------------------
\* The directory scanner (scanner.ts): parseTaskOrder, scanTaskTree,
\* organizeIntoTree, findNextInTree
\* ------------------------------------------------------------------------
\* order null
NoOrder == -1

\* dirName.match(/^(\d+)-(.+)$/): digits, a dash and a non-empty rest
parseTaskOrder(dirName) ==
    IF Len(dirName.d) >= 1 /\ dirName.n # ""
    THEN [order |-> parseInt(dirName.d), name |-> dirName.n]
    ELSE [order |-> NoOrder, name |-> dirName.n]

\* entries of a listing that the loops over readdir skip: names starting
\* with "." and entries that are not directories
NotTaskDirectories ==
    {Entry(<<>>, ".session.json"), Entry(<<>>, "plan.md"), Entry(<<>>, ".DS_Store")}

\* names readdir can return
ScanNames ==
    { Entry(<<0>>, "a"), Entry(<<2>>, "c"), Entry(<<1, 0>>, "b"), Entry(<<9>>, "d"),
      Entry(<<0, 2>>, "e"), Entry(<<>>, "zz"), Entry(<<>>, "yy"),
      Entry(<<>>, ".session.json") }

\* [...numbered.keys()].sort((a, b) => a - b)
RECURSIVE sortedOrders(_)
sortedOrders(keys) ==
    IF keys = {} THEN <<>>
    ELSE LET least == CHOOSE k \in keys : \A j \in keys : k <= j
         IN <<least>> \o sortedOrders(keys \ {least})

\* the groups in the iteration order of the Map (first appearance of a key)
organizeIntoTreeUnsorted(tasks) ==
    LET first(o) == CHOOSE i \in 1..Len(tasks) :
                       tasks[i].order = o /\ \A j \in 1..(i - 1) : tasks[j].order # o
        keys == {tasks[i].order : i \in 1..Len(tasks)} \ {NoOrder}
        positions == sortedOrders({first(o) : o \in keys})
        unnumbered == SelectSeq(tasks, LAMBDA t : t.order = NoOrder)
        numbered == [k \in 1..Len(positions) |->
                        SelectSeq(tasks, LAMBDA t : t.order = tasks[positions[k]].order)]
    IN [kind |-> "tree",
        groups |-> IF unnumbered = <<>> THEN numbered ELSE Append(numbered, unnumbered)]

\* the unnumbered group pushed without the test of its length
organizeIntoTreeAlwaysTail(tasks) ==
    LET keys == {tasks[i].order : i \in 1..Len(tasks)} \ {NoOrder}
        orders == sortedOrders(keys)
        numbered == [k \in 1..Len(orders) |->
                        SelectSeq(tasks, LAMBDA t : t.order = orders[k])]
    IN [kind |-> "tree",
        groups |-> Append(numbered, SelectSeq(tasks, LAMBDA t : t.order = NoOrder))]

\* organizeIntoTree: one group per order number, ascending, then the
\* unnumbered tasks as one group
organizeIntoTree(tasks) ==
    LET keys == {tasks[i].order : i \in 1..Len(tasks)} \ {NoOrder}
        orders == sortedOrders(keys)
        unnumbered == SelectSeq(tasks, LAMBDA t : t.order = NoOrder)
        numbered == [k \in 1..Len(orders) |->
                        SelectSeq(tasks, LAMBDA t : t.order = orders[k])]
    IN [kind |-> "tree",
        groups |-> IF unnumbered = <<>> THEN numbered ELSE Append(numbered, unnumbered)]

RECURSIVE scanTaskTree(_, _)

\* parseTask: the order and name, the .skipped marker, and the subtasks
\* scanned from the directory itself with the status of the parent
parseTask(entry, status) ==
    [dirName |-> entry.e, displayName |-> parseTaskOrder(entry.e).name,
     order |-> parseTaskOrder(entry.e).order, status |-> status,
     skipped |-> entry.skipped, subtasks |-> scanTaskTree(entry.sub, status)]

\* scanTasksFlat(statusDir, status, ""): the directories of a listing, parsed
scanTasksFlat(entries, status) ==
    LET dirs == SelectSeq(entries, LAMBDA x : x.e \notin NotTaskDirectories)
    IN [i \in 1..Len(dirs) |-> parseTask(dirs[i], status)]

\* scanTaskTree(dir, status, parentPath): the same loop, then organizeIntoTree
scanTaskTree(entries, status) == organizeIntoTree(scanTasksFlat(entries, status))

\* buildCombinedTaskTree: accepted, busy, tested, in that order
buildCombinedTaskTree(p) ==
    organizeIntoTree(scanTasksFlat(p.accepted, "accepted")
                     \o scanTasksFlat(p.busy, "busy")
                     \o scanTasksFlat(p.tested, "tested"))

\* the loop over the group without the look into the subtasks
findNextInTreeIgnoringSubtasks(t) ==
    LET complete(x) == x.status = "tested" \/ x.skipped
        open == {g \in 1..Len(t.groups) : ~ \A i \in 1..Len(t.groups[g]) : complete(t.groups[g][i])}
    IN IF open = {} THEN [kind |-> "null"]
       ELSE LET group == t.groups[CHOOSE g \in open : \A h \in open : g <= h]
                readyTasks == SelectSeq(group, LAMBDA x : ~complete(x) /\ x.status = "accepted")
            IN IF \E i \in 1..Len(group) : ~complete(group[i]) /\ group[i].status = "busy"
               THEN [kind |-> "tasks", tasks |-> <<>>]
               ELSE IF readyTasks # <<>> THEN [kind |-> "tasks", tasks |-> readyTasks]
               ELSE [kind |-> "null"]

\* a loop that answers null, not [], at a busy task
findNextInTreeBusyIsNull(t) ==
    LET complete(x) == x.status = "tested" \/ x.skipped
        open == {g \in 1..Len(t.groups) : ~ \A i \in 1..Len(t.groups[g]) : complete(t.groups[g][i])}
    IN IF open = {} THEN [kind |-> "null"]
       ELSE LET group == t.groups[CHOOSE g \in open : \A h \in open : g <= h]
            IN IF \E i \in 1..Len(group) : ~complete(group[i]) /\ group[i].status = "busy"
               THEN [kind |-> "null"]
               ELSE [kind |-> "tasks",
                     tasks |-> SelectSeq(group, LAMBDA x : ~complete(x) /\ x.status = "accepted")]

\* the loop over the group with the .skipped marker not counted as complete
findNextInTreeTestedOnly(t) ==
    LET open == {g \in 1..Len(t.groups) : \E i \in 1..Len(t.groups[g]) : t.groups[g][i].status # "tested"}
    IN IF open = {} THEN [kind |-> "null"]
       ELSE LET group == t.groups[CHOOSE g \in open : \A h \in open : g <= h]
                readyTasks == SelectSeq(group, LAMBDA x : x.status = "accepted")
            IN IF \E i \in 1..Len(group) : group[i].status = "busy"
               THEN [kind |-> "tasks", tasks |-> <<>>]
               ELSE [kind |-> "tasks", tasks |-> readyTasks]

\* findNextInTree: [kind |-> "null"] for null, otherwise the array returned
RECURSIVE findNextInTree(_)
findNextInTree(t) ==
    LET complete(x) == x.status = "tested" \/ x.skipped
        open == {g \in 1..Len(t.groups) :
                    ~ \A i \in 1..Len(t.groups[g]) : complete(t.groups[g][i])}
    IN IF open = {} THEN [kind |-> "null"]
       ELSE LET group == t.groups[CHOOSE g \in open : \A h \in open : g <= h]
                waits(i) == /\ group[i].subtasks.groups # <<>>
                            /\ findNextInTree(group[i].subtasks).kind # "null"
                returns == {i \in 1..Len(group) :
                               ~complete(group[i]) /\ (waits(i) \/ group[i].status = "busy")}
                readyTasks == SelectSeq(group, LAMBDA x : ~complete(x) /\ x.status = "accepted")
            IN IF returns # {}
               THEN LET i == CHOOSE k \in returns : \A j \in returns : k <= j
                    IN IF waits(i) THEN findNextInTree(group[i].subtasks)
                       ELSE [kind |-> "tasks", tasks |-> <<>>]
               ELSE IF readyTasks # <<>> THEN [kind |-> "tasks", tasks |-> readyTasks]
               ELSE [kind |-> "null"]

\* the listings: any order of any distinct names
Listings ==
    {l \in UNION {[1..k -> ScanNames] : k \in 0..MaxEntries} :
        \A i, j \in 1..Len(l) : i # j => l[i] # l[j]}

\* plans whose tasks 1-a, 1-b and 2-c lie in any container, in any order,
\* with or without the .skipped marker and a subtask 0-s
PlanDirs ==
    LET names == {Entry(<<1>>, "a"), Entry(<<1>>, "b"), Entry(<<2>>, "c")}
        subs == {<<>>, <<TaskEntry(Entry(<<0>>, "s"), FALSE, <<>>)>>,
                 <<TaskEntry(Entry(<<0>>, "s"), TRUE, <<>>)>>}
        kinds == [status : {"accepted", "busy", "tested"}, skipped : BOOLEAN, sub : subs]
        orders == {o \in [1..3 -> names] : \A i, j \in 1..3 : i # j => o[i] # o[j]}
        container(o, k, s) ==
            LET mine == SelectSeq(o, LAMBDA n : k[n].status = s)
            IN [i \in 1..Len(mine) |-> TaskEntry(mine[i], k[mine[i]].skipped, k[mine[i]].sub)]
    IN {[accepted |-> container(o, k, "accepted"), busy |-> container(o, k, "busy"),
         tested |-> container(o, k, "tested"), done |-> <<>>,
         dirs |-> {"accepted", "busy", "tested"}] :
            o \in orders, k \in [names -> kinds]}

\* a tree built twice from state kept between the calls
ScanAccumulating ==
    /\ scans < MaxScans
    /\ tree' = IF tree = NoTree THEN scanTaskTree(planDir.accepted, "accepted")
               ELSE [tree EXCEPT !.groups = @ \o scanTaskTree(planDir.accepted, "accepted").groups]
    /\ scans' = scans + 1
    /\ UNCHANGED <<sdkVars, found, par>>

\* parsePlan line 95: the tree of accepted/
Scan ==
    /\ scans < MaxScans
    /\ tree' = scanTaskTree(planDir.accepted, "accepted")
    /\ scans' = scans + 1
    /\ UNCHANGED <<sdkVars, found, par>>

\* next_task (autocode.ts lines 93-143): scanPlans, then
\* findNextExecutableTasks on the combined tree
next_task ==
    /\ found' = LET nextTasks == findNextInTree(buildCombinedTaskTree(planDir))
                IN IF nextTasks.kind = "null" THEN [status |-> "all_complete", tasks |-> <<>>]
                   ELSE IF nextTasks.tasks = <<>> THEN [status |-> "waiting", tasks |-> <<>>]
                   ELSE [status |-> "ready", tasks |-> nextTasks.tasks]
    /\ UNCHANGED <<sdkVars, tree, scans, par>>

\* the scanned plan: one of PlanDirs, or one whose accepted/ has one of the
\* listings
ScanInit ==
    /\ SdkStart /\ ScanStart /\ meta = [kind |-> "missing"]
    /\ planDir \in PlanDirs \cup
          {[accepted |-> [i \in 1..Len(l) |-> TaskEntry(l[i], FALSE, <<>>)], busy |-> <<>>,
            tested |-> <<>>, done |-> <<>>, dirs |-> {"accepted"}] : l \in Listings}
    /\ stage = {"build"} /\ acc = EmptyDir /\ done = EmptyDir /\ rpc = "idle"
    /\ cur = NoEntry /\ ex = NoCalls /\ rres = [kind |-> "none"] /\ sessions = <<>>
    /\ pass = 0 /\ authored = 0 /\ fixes = 0 /\ fres = [kind |-> "none"] /\ faults = 0

ScanNext ==
    /\ UNCHANGED orchVars
    /\ \/ Scan
       \/ next_task

ScanSpec == ScanInit /\ [][ScanNext]_vars

\* ------------------------------------------------------------------------
\* state.ts and the SDK tools: moveTaskStatus, resetBusyTasks,
\* readSessionMeta, execute_task, abort_plan_sessions
\* ------------------------------------------------------------------------
\* stat(path.join(dir, name)): where the listing holds that name
stat(entries, name) == {i \in 1..Len(entries) : entries[i].e = name}

\* a move that does not look at the source first
moveTaskStatusUnchecked(taskDirName, fromStatus, toStatus) ==
    /\ planDir' = [planDir EXCEPT !.dirs = @ \cup {toStatus},
                     ![toStatus] = Append(@, TaskEntry(taskDirName, FALSE, <<>>))]
    /\ sres' = [kind |-> "ok"]
    /\ UNCHANGED <<meta, sdk, svc, abort, scanVars>>

\* moveTaskStatus (move_task of autocode.ts): mkdir of the target container,
\* the call throws when the source does not exist, rename otherwise; rename
\* onto itself does nothing and rename onto a directory with files fails
moveTaskStatus(taskDirName, fromStatus, toStatus) ==
    LET made == [planDir EXCEPT !.dirs = @ \cup {toStatus}]
        s == stat(planDir[fromStatus], taskDirName)
    IN /\ IF s = {}
          THEN /\ planDir' = made
               /\ sres' = [kind |-> "error", message |-> "Task directory not found"]
          ELSE IF fromStatus = toStatus
          THEN /\ planDir' = made
               /\ sres' = [kind |-> "ok"]
          ELSE IF stat(planDir[toStatus], taskDirName) # {}
          THEN /\ planDir' = made
               /\ sres' = [kind |-> "error", message |-> "ENOTEMPTY"]
          ELSE /\ planDir' = [made EXCEPT
                                 ![fromStatus] = SelectSeq(@, LAMBDA x : x.e # taskDirName),
                                 ![toStatus] = Append(@, planDir[fromStatus][CHOOSE i \in s : TRUE])]
               /\ sres' = [kind |-> "ok"]
       /\ UNCHANGED <<meta, sdk, svc, abort, scanVars>>

\* the parse shared by readSessionMeta (lines 133-141) and updateSessionMeta
\* (lines 103-112): the default when the file cannot be read or its text is
\* not JSON, otherwise the value the text denotes
readSessionMeta(file) ==
    IF file.kind = "json" THEN file.value ELSE [taskSessions |-> <<>>]

\* execute_task up to the prompt (tool lines 34-65, executeTask lines 23-50):
\* the prompt is read from busy/<task>/ (the call returns an error and
\* changes nothing when it is not there); the session is the one named by
\* resume_session_id, or a new one (a failing session.create raises and
\* changes nothing either); nothing is recorded in .session.json yet
execute_task(t, type, resume) ==
    /\ t \notin DOMAIN sdk /\ stat(planDir.busy, t) # {}
    /\ svc.prompts < MaxSdkPrompts
    /\ IF resume
       THEN LET m == readSessionMeta(meta)
            IN /\ "taskSessions" \in DOMAIN m
               /\ t \in DOMAIN m.taskSessions
               /\ LET id == IF type = "build" THEN m.taskSessions[t].buildSessionId
                            ELSE m.taskSessions[t].testSessionId
                  IN /\ id # ""
                     /\ sdk' = (t :> [type |-> type, sessionId |-> id]) @@ sdk
                     /\ svc' = [svc EXCEPT !.prompts = @ + 1, !.active = @ \cup {id}]
       ELSE LET id == SessionIds[svc.created + 1]
            IN /\ sdk' = (t :> [type |-> type, sessionId |-> id]) @@ sdk
               /\ svc' = [svc EXCEPT !.created = @ + 1, !.prompts = @ + 1,
                                      !.active = @ \cup {id}]
    /\ UNCHANGED <<planDir, meta, abort, sres, scanVars>>

\* the updater handed to updateSessionMeta (tool lines 72-87)
updater(m, key, type, sessionId, success) ==
    LET old == IF key \in DOMAIN m THEN m[key]
               ELSE [buildSessionId |-> "", testSessionId |-> "",
                     retryCount |-> 0, lastError |-> FALSE]
        ids == IF type = "build" THEN [old EXCEPT !.buildSessionId = sessionId]
               ELSE [old EXCEPT !.testSessionId = sessionId]
        new == IF success THEN ids
               ELSE [ids EXCEPT !.lastError = TRUE, !.retryCount = @ + 1]
    IN (key :> new) @@ m

\* the rest of execute_task (executeTask lines 52-79, tool lines 67-94): the
\* session goes idle, with or without error; the session file is written
\* (a failing Bun.write rejects the call before .session.json is touched)
\* and .session.json updated. The updater reads meta.taskSessions[key]: on a
\* parsed value without taskSessions it throws and nothing is written
ExecuteTaskReturn(t, success, written) ==
    /\ t \in DOMAIN sdk
    /\ svc' = [svc EXCEPT !.active = @ \ {sdk[t].sessionId},
                          !.failed[t] = IF success THEN @ ELSE @ + 1]
    /\ LET m == readSessionMeta(meta)
       IN IF ~written
          THEN /\ meta' = meta
               /\ sres' = [kind |-> "error", message |-> "EIO"]
          ELSE IF "taskSessions" \in DOMAIN m
          THEN /\ meta' = [kind |-> "json",
                           value |-> [m EXCEPT !.taskSessions =
                                        updater(@, t, sdk[t].type, sdk[t].sessionId, success)]]
               /\ sres' = [kind |-> "ok"]
          ELSE /\ meta' = meta
               /\ sres' = [kind |-> "error", message |-> "TypeError"]
    /\ sdk' = [x \in DOMAIN sdk \ {t} |-> sdk[x]]
    /\ UNCHANGED <<planDir, abort, scanVars>>

\* session ids abort_plan_sessions reads from .session.json (lines 192-204)
RecordedSessions(m) ==
    ({m[t].buildSessionId : t \in DOMAIN m} \cup {m[t].testSessionId : t \in DOMAIN m})
        \ {""}

\* a loop that returns after the first directory it moved
resetBusyTasksFirstOnly(p) ==
    LET dirs == {i \in 1..Len(p.busy) : p.busy[i].e \notin NotTaskDirectories}
        first == CHOOSE i \in dirs : \A j \in dirs : i <= j
    IN IF dirs = {} THEN [planDir |-> p, result |-> [kind |-> "ok", moved |-> 0]]
       ELSE [planDir |-> [p EXCEPT !.accepted = Append(@, p.busy[first]),
                                   !.busy = SelectSeq(@, LAMBDA x : x # p.busy[first])],
             result |-> [kind |-> "ok", moved |-> 1]]

\* resetBusyTasks: mkdir of accepted/, then every directory of busy/ whose
\* name does not start with "." is renamed into accepted/ and counted; a
\* rename that fails ends the call with what was moved so far
resetBusyTasks(p) ==
    LET entries == p.busy
        clash == {i \in 1..Len(entries) :
                     /\ entries[i].e \notin NotTaskDirectories
                     /\ stat(p.accepted, entries[i].e) # {}}
        stop == IF clash = {} THEN Len(entries) + 1
                ELSE CHOOSE i \in clash : \A j \in clash : i <= j
        seen == SubSeq(entries, 1, stop - 1)
        renamed == SelectSeq(seen, LAMBDA x : x.e \notin NotTaskDirectories)
    IN [planDir |-> [p EXCEPT !.dirs = @ \cup {"accepted"},
                              !.accepted = @ \o renamed,
                              !.busy = SelectSeq(seen, LAMBDA x : x.e \in NotTaskDirectories)
                                          \o SubSeq(entries, stop, Len(entries))],
        result |-> IF clash = {} THEN [kind |-> "ok", moved |-> Len(renamed)]
                   ELSE [kind |-> "error", message |-> "ENOTEMPTY"]]

\* abort_plan_sessions (tool lines 188-210); Object.entries(meta.taskSessions)
\* throws on a parsed value without taskSessions; the record keeps the
\* sessions that were active when the tool was invoked
abort_plan_sessions ==
    LET m == readSessionMeta(meta)
        r == resetBusyTasks(planDir)
    IN /\ IF "taskSessions" \notin DOMAIN m
          THEN /\ abort' = [kind |-> "raised"]
               /\ UNCHANGED <<planDir, svc, sres>>
          ELSE /\ abort' = [kind |-> IF r.result.kind = "ok" THEN "done" ELSE "raised",
                            active |-> svc.active,
                            sent |-> RecordedSessions(m.taskSessions)]
               /\ svc' = [svc EXCEPT !.aborted = @ \cup RecordedSessions(m.taskSessions)]
               /\ planDir' = r.planDir
               /\ sres' = r.result
       /\ UNCHANGED <<meta, sdk, scanVars>>

\* the plan as createPlanStructure and the build agent leave it: the tasks
\* in accepted/, a stray file in busy/ or not, or (as in the tests of
\* state.ts, lines 299-319) a plan that has its accepted/ only;
\* .session.json missing, not JSON, holding {} or holding {"taskSessions":{}}
SdkInit ==
    /\ SdkStart /\ ScanStart
    /\ planDir \in {[accepted |-> <<TaskEntry(Entry(<<0>>, "a"), FALSE, <<>>),
                                   TaskEntry(Entry(<<0, 1>>, "b"), FALSE, <<>>)>>,
                    busy |-> c.busy, tested |-> <<>>, done |-> <<>>, dirs |-> c.dirs] :
                       c \in {[busy |-> <<>>, dirs |-> {"accepted"}],
                              [busy |-> <<>>, dirs |-> {"accepted", "busy", "tested"}],
                              [busy |-> <<TaskEntry(Entry(<<>>, ".DS_Store"), FALSE, <<>>)>>,
                               dirs |-> {"accepted", "busy", "tested"}]}}
    /\ meta \in {[kind |-> "missing"], [kind |-> "text"], [kind |-> "json", value |-> <<>>],
                 [kind |-> "json", value |-> [taskSessions |-> <<>>]]}
    /\ stage = {"build"} /\ acc = EmptyDir /\ done = EmptyDir /\ rpc = "idle"
    /\ cur = NoEntry /\ ex = NoCalls /\ rres = [kind |-> "none"] /\ sessions = <<>>
    /\ pass = 0 /\ authored = 0 /\ fixes = 0 /\ fres = [kind |-> "none"] /\ faults = 0

SdkNext ==
    /\ UNCHANGED orchVars
    /\ \/ \E t \in SdkTasks, f, to \in {"accepted", "busy", "tested"} :
             moveTaskStatus(t, f, to)
       \/ \E t \in SdkTasks, type \in {"build", "test"}, resume \in BOOLEAN :
             execute_task(t, type, resume)
       \/ \E t \in SdkTasks, success, written \in BOOLEAN :
             ExecuteTaskReturn(t, success, written)
       \/ abort_plan_sessions

SdkSpec == SdkInit /\ [][SdkNext]_vars

\* autocode_orchestrate_resume as the status containers see it (lines
\* 529-556): a new invocation or the next turn of its loop reads accepted/;
\* with no numbered group left the plan is renamed into review/ (the rename
\* raises when the plan is not in build/), otherwise the group is executed.
\* What the execution writes lies inside the group's directory.
ResumeNextGroup ==
    /\ rpc \in {"idle", "loop"}
    /\ rpc = "idle" => pass < MaxPasses
    /\ pass' = IF rpc = "idle" THEN pass + 1 ELSE pass
    /\ LET next == findNextGroup({planDir.accepted[i].e : i \in 1..Len(planDir.accepted)})
       IN IF "build" \notin stage
          THEN /\ rres' = [kind |-> "raised"] /\ rpc' = "idle"
               /\ UNCHANGED <<stage, cur>>
          ELSE IF next = {}
          THEN /\ stage' = (stage \ {"build"}) \cup {"review"}
               /\ rres' = [kind |-> "done", done |-> TRUE] /\ rpc' = "idle"
               /\ cur' = cur
          ELSE /\ \E groupName \in next : cur' = groupName
               /\ rpc' = "wait"
               /\ UNCHANGED <<stage, rres>>
    /\ UNCHANGED <<acc, done, ex, sessions, authored, fixes, fres, faults, sdkVars, scanVars>>

\* a resume that copies the group into done/ and leaves it in accepted/
ResumeGroupDoneCopy(succeeded) ==
    /\ rpc = "wait" /\ succeeded
    /\ planDir' = [planDir EXCEPT !.dirs = @ \cup {"done"},
                                  !.done = Append(@, TaskEntry(cur, FALSE, <<>>))]
    /\ rpc' = "idle" /\ rres' = [kind |-> "done", done |-> FALSE]
    /\ UNCHANGED <<stage, acc, done, cur, ex, sessions, pass, authored, fixes, fres, faults,
                   meta, sdk, svc, abort, sres, scanVars>>

\* the group's execution returns (lines 558-597): a failure is reported and
\* nothing moves; otherwise mkdir of done/ and rename of the group's
\* directory into it, which raises when the directory is no longer in
\* accepted/, and the loop goes round
ResumeGroupDone(succeeded) ==
    /\ rpc = "wait"
    /\ LET s == stat(planDir.accepted, cur)
       IN IF ~succeeded
          THEN /\ rres' = [kind |-> "done", done |-> FALSE] /\ rpc' = "idle"
               /\ planDir' = planDir
          ELSE IF s = {}
          THEN /\ rres' = [kind |-> "raised"] /\ rpc' = "idle"
               /\ planDir' = [planDir EXCEPT !.dirs = @ \cup {"done"}]
          ELSE /\ rres' = rres /\ rpc' = "loop"
               /\ planDir' = [planDir EXCEPT
                                 !.dirs = @ \cup {"done"},
                                 !.accepted = SelectSeq(@, LAMBDA x : x.e # cur),
                                 !.done = Append(@, planDir.accepted[CHOOSE i \in s : TRUE])]
    /\ UNCHANGED <<stage, acc, done, cur, ex, sessions, pass, authored, fixes, fres, faults,
                   meta, sdk, svc, abort, sres, scanVars>>

\* the same plan with no task execution through the SDK: move_task and
\* abort_plan_sessions while the plan is in build/, and the resume loop
TaskMoveNext ==
    \/ /\ UNCHANGED orchVars
       /\ "build" \in stage
       /\ \/ \E t \in SdkTasks, f, to \in {"accepted", "busy", "tested"} :
                moveTaskStatus(t, f, to)
          \/ abort_plan_sessions
    \/ ResumeNextGroup
    \/ \E succeeded \in BOOLEAN : ResumeGroupDone(succeeded)

TaskMoveSpec == SdkInit /\ [][TaskMoveNext]_vars

\* ------------------------------------------------------------------------
\* executeParallelTasks (sdk/orchestrator.ts lines 82-115), called by
\* execute_parallel_tasks with config.parallelSessionsLimit
\* ------------------------------------------------------------------------
\* a loop that starts every task without waiting for a free place
executeParallelTasksNoWait ==
    /\ par.pc = "loop" /\ par.i < par.n
    /\ par' = [par EXCEPT !.i = @ + 1, !.executing = @ \cup {par.i + 1},
                          !.running = @ \cup {par.i + 1}]
    /\ UNCHANGED <<orchVars, sdkVars, tree, scans, found>>

\* the caller's thread. In the loop: the async wrapper of tasks[i] is
\* started (executeTask runs up to its first await), added to `executing`,
\* and with executing.size >= limit the loop awaits Promise.race(executing).
\* The race settles as the first of its promises does, the final
\* Promise.all when all of `executing` fulfilled or one rejected
executeParallelTasks ==
    /\ \/ /\ par.pc = "loop" /\ par.i < par.n
          /\ LET executing == par.executing \cup {par.i + 1}
             IN par' = [par EXCEPT !.i = @ + 1, !.executing = executing,
                                   !.running = @ \cup {par.i + 1},
                                   !.pc = IF Cardinality(executing) >= par.limit
                                          THEN "race" ELSE "loop",
                                   !.awaited = IF Cardinality(executing) >= par.limit
                                               THEN executing ELSE {},
                                   !.first = "none"]
       \/ /\ par.pc = "loop" /\ par.i = par.n
          /\ par' = [par EXCEPT !.pc = "all", !.awaited = par.executing, !.first = "none"]
       \/ /\ par.pc = "race" /\ par.first # "none"
          /\ par' = [par EXCEPT !.pc = IF par.first = "fulfilled" THEN "loop" ELSE "threw",
                                !.awaited = {}]
       \/ /\ par.pc = "all" /\ (par.first = "rejected" \/ par.awaited \cap par.executing = {})
          /\ par' = [par EXCEPT !.pc = IF par.first = "rejected" THEN "threw" ELSE "done",
                                !.awaited = {}]
    /\ UNCHANGED <<orchVars, sdkVars, tree, scans, found>>

\* executeTask of task t returns (results[index] is set) or throws (a
\* failing session.create, lines 33-39); the reaction registered by
\* promise.finally deletes the promise from `executing` before the thread
\* that awaits it resumes
TaskPromiseSettles(t, fulfilled) ==
    /\ t \in par.running
    /\ par' = [par EXCEPT !.running = @ \ {t}, !.executing = @ \ {t},
                          !.results = IF fulfilled THEN @ \cup {t} ELSE @,
                          !.first = IF t \in par.awaited /\ (@ = "none" \/ (par.pc = "all" /\ ~fulfilled))
                                    THEN (IF fulfilled THEN "fulfilled" ELSE "rejected")
                                    ELSE @]
    /\ UNCHANGED <<orchVars, sdkVars, tree, scans, found>>

ParallelInit ==
    /\ SdkStart /\ NoPlanDir
    /\ tree = NoTree /\ scans = 0 /\ found = [status |-> "none", tasks |-> <<>>]
    /\ \E n \in 0..MaxParallelTasks, limit \in 1..MaxLimit :
          par = [pc |-> "loop", i |-> 0, n |-> n, limit |-> limit, executing |-> {},
                 running |-> {}, awaited |-> {}, first |-> "none", results |-> {}]
    /\ stage = {"build"} /\ acc = EmptyDir /\ done = EmptyDir /\ rpc = "idle"
    /\ cur = NoEntry /\ ex = NoCalls /\ rres = [kind |-> "none"] /\ sessions = <<>>
    /\ pass = 0 /\ authored = 0 /\ fixes = 0 /\ fres = [kind |-> "none"] /\ faults = 0

ParallelSpec ==
    ParallelInit /\ [][executeParallelTasks
                       \/ \E t \in 1..MaxParallelTasks, fulfilled \in BOOLEAN :
                             TaskPromiseSettles(t, fulfilled)]_vars

\* ------------------------------------------------------------------------
\* The plan directory among the stage containers (state.ts): move_plan and
\* archive_plan of autocode.ts next to autocode_orchestrate_resume
\* ------------------------------------------------------------------------
\* a copy in place of the rename: the plan also stays in the source stage
movePlanToStageCopy(fromStage, toStage) ==
    /\ rpc = "idle"
    /\ stage' = stage \cup {toStage}
    /\ sres' = [kind |-> "ok"]
    /\ UNCHANGED <<acc, done, rpc, cur, ex, rres, sessions, pass, authored, fixes, fres, faults>>
    /\ UNCHANGED <<planDir, meta, sdk, svc, abort, scanVars>>

\* movePlanToStage: mkdir of the target stage, the call throws when the
\* source does not exist, rename otherwise; rename onto itself does nothing
\* and rename onto a directory with files fails
movePlanToStage(fromStage, toStage) ==
    /\ rpc = "idle"
    /\ IF fromStage \notin stage
       THEN /\ sres' = [kind |-> "error", message |-> "Plan directory not found"]
            /\ stage' = stage
       ELSE IF fromStage = toStage
       THEN /\ sres' = [kind |-> "ok"]
            /\ stage' = stage
       ELSE IF toStage \in stage
       THEN /\ sres' = [kind |-> "error", message |-> "ENOTEMPTY"]
            /\ stage' = stage
       ELSE /\ sres' = [kind |-> "ok"]
            /\ stage' = (stage \ {fromStage}) \cup {toStage}
    /\ UNCHANGED <<acc, done, rpc, cur, ex, rres, sessions, pass, authored, fixes, fres, faults>>
    /\ UNCHANGED <<planDir, meta, sdk, svc, abort, scanVars>>

\* archivePlan: the same with .autocode/.archive/ as the target
archivePlan(fromStage) == movePlanToStage(fromStage, ".archive")

StageNext ==
    \/ /\ UNCHANGED <<sdkVars, scanVars>>
       /\ \/ ResumeCall
          \/ ResumeLoop
          \/ ResumeAwait
          \/ \E m \in Members : ExecStart(m)
          \/ \E m \in Members : BuildCreate(m)
          \/ \E m \in Members : BuildPrompt(m)
          \/ \E m \in Members : BuildMessages(m)
          \/ \E m \in Members : TestCheck(m)
          \/ \E m \in Members : TestCreate(m)
          \/ \E m \in Members : TestPrompt(m)
          \/ \E m \in Members : TestMessages(m)
    \/ \E fromStage, toStage \in {"build", "review"} : movePlanToStage(fromStage, toStage)
    \/ archivePlan("review")

StageSpec == Init /\ [][StageNext]_vars

\* ------------------------------------------------------------------------
\* The same system on an agent service that may leave a prompt unanswered:
\* the await of client.session.prompt (lines 337 and 428) then never resumes
\* ------------------------------------------------------------------------
SendNeverCompletes(m) ==
    /\ m \in DOMAIN ex /\ ex[m].pc \in {"bprompt", "tprompt"}
    /\ sessions' = Prompted(IF ex[m].pc = "bprompt" THEN ex[m].sid ELSE ex[m].tsid,
                            IF ex[m].pc = "bprompt" THEN "explore" ELSE "test")
    /\ ex' = [ex EXCEPT ![m].pc = IF ex[m].pc = "bprompt" THEN "bstall" ELSE "tstall"]
    /\ UNCHANGED <<stage, acc, done, rpc, cur, rres, pass, authored, fixes, fres, faults>>

NextStall ==
    \/ Next
    \/ (UNCHANGED <<sdkVars, scanVars>> /\ \E m \in Members : SendNeverCompletes(m))

SpecStall == Init /\ [][NextStall]_vars

\* ------------------------------------------------------------------------
\* Vocabulary of the properties
\* ------------------------------------------------------------------------
InFlight(m) == ~Settled(ex[m])

\* the directory of member m of the group last executed, wherever it is now
currentDir(m) ==
    LET g == IF cur \in DOMAIN acc THEN acc[cur] ELSE done[cur]
    IN IF m = Self THEN g.own ELSE g.kids[m]

\* sessions created for member m of the current group by the invocation
\* that made its call
SessionsOf(m, title) ==
    {i \in 1..Len(sessions) :
        /\ sessions[i].title = title /\ sessions[i].group = cur
        /\ sessions[i].member = m /\ sessions[i].pass = ex[m].pass}

\* ------------------------------------------------------------------------
\* C1: resume reports done:true (and promotes the plan to review/) only when
\* no entry at all remains in accepted/, whatever its prefix width.
\* ------------------------------------------------------------------------
C1_DoneOnlyWhenAcceptedEmpty ==
    rres.kind = "done" => DOMAIN acc = {}

\* ------------------------------------------------------------------------
\* C2: while resume executes a group, no <digits>-<name> entry with a lower
\* numeric prefix is present in accepted/.
\* ------------------------------------------------------------------------
C2_LowestNumericPrefixFirst ==
    rpc = "wait" =>
        \A e \in DOMAIN acc : HasNumericPrefix(e) => OrderOf(cur) <= OrderOf(e)

\* ------------------------------------------------------------------------
\* C3: the failures list returned for a concurrent group names exactly the
\* members whose executeTask call returned a failure in this pass.
\* ------------------------------------------------------------------------
C3_FailuresExact ==
    rres.kind = "group" =>
        /\ {r.task_name : r \in rres.failures}
             = {TaskName(cur, m) : m \in {x \in DOMAIN ex : ex[x].pc = "fail"}}
        /\ \A r \in rres.failures :
              \E m \in DOMAIN ex :
                 /\ r.task_name = TaskName(cur, m)
                 /\ r.failure_type = ex[m].fail.failureType
                 /\ r.session_id = ex[m].fail.sessionId

\* a concurrent group was reported with one member failed and one succeeded
C3_Witness ==
    /\ rres.kind = "group"
    /\ \E a, b \in DOMAIN ex : ex[a].pc = "fail" /\ ex[b].pc = "ok"

\* ------------------------------------------------------------------------
\* C4: a group directory moves from accepted/ to done/ exactly when the
\* await of the group ends with every member succeeded; otherwise it stays
\* in accepted/ and the invocation ends without executing another group.
\* ------------------------------------------------------------------------
C4_MoveIffGroupSucceeded ==
    [][ /\ (rpc = "wait" /\ rpc' # "wait") =>
              IF \A m \in DOMAIN ex : ex[m].pc = "ok"
              THEN /\ cur \in DOMAIN acc /\ cur \notin DOMAIN acc'
                   /\ cur \in DOMAIN done' /\ done'[cur] = acc[cur]
              ELSE /\ acc' = acc /\ done' = done
                   /\ rpc' = "idle" /\ rres'.kind \in {"task", "group", "raised"}
        /\ (done' # done) => (rpc = "wait" /\ \A m \in DOMAIN ex : ex[m].pc = "ok")
      ]_vars

\* a concurrent group whose members all succeeded lies in done/
C4_Witness ==
    \E g \in DOMAIN done :
        /\ isConcurrent(g) /\ g = cur
        /\ \A m \in DOMAIN ex : ex[m].pc = "ok"
        /\ \E m \in DOMAIN ex : m # Self

\* ------------------------------------------------------------------------
\* C5: whenever resume is not awaiting a group (it returned, raised, or
\* moved on to the next group), no member execution is still in flight.
\* ------------------------------------------------------------------------
C5_NoMemberInFlightAfterAwait ==
    rpc # "wait" => \A m \in DOMAIN ex : ~InFlight(m)

\* ------------------------------------------------------------------------
\* C6: a call that finds task.success.<id>.md in its directory creates no
\* build session and sends no build instruction; it goes to verification
\* with <id> as its build session id, build.prompt.md present or not.
\* ------------------------------------------------------------------------
SeenBuildSuccess(m) == {f \in ex[m].seen : f.pre = "task" /\ f.st = "success"}

VerificationPositions == {"tcheck", "tcreate", "tprompt", "tmsgs", "ok", "fail", "threw"}

C6_ExistingBuildSkipsBuild ==
    \A m \in DOMAIN ex :
        (SeenBuildSuccess(m) # {} /\ ex[m].pc # "start") =>
            /\ SessionsOf(m, "Execute") = {}
            /\ \A i \in 1..Len(sessions) :
                  (sessions[i].group = cur /\ sessions[i].member = m
                      /\ sessions[i].pass = ex[m].pass)
                      => \A k \in 1..Len(sessions[i].prompts) : sessions[i].prompts[k] # "explore"
            /\ ex[m].bsid \in {f.id : f \in SeenBuildSuccess(m)}
            /\ ex[m].pc \in VerificationPositions
            /\ ex[m].pc = "fail" =>
                  /\ ex[m].fail.failureType \in {"test_session", "test_verification"}
                  /\ ex[m].fail.buildSessionId = ex[m].bsid

\* a directory without build.prompt.md, holding task.success.old.md, whose
\* verification session has been prompted
C6_Witness ==
    \E m \in DOMAIN ex :
        /\ SeenBuildSuccess(m) # {} /\ ex[m].pc = "tmsgs"
        /\ cur \in DOMAIN acc /\ ~currentDir(m).bp
        /\ ex[m].bsid = "old"

\* ------------------------------------------------------------------------
\* C7: after fix_task returned success the task directory holds
\* task.success.<session_id>.md, and a later resume creates no build
\* session for that task: its call is in the verification phase or done.
\* ------------------------------------------------------------------------
FixedTaskDir ==
    LET g == fres.task_name[1]
        m == fres.task_name[2]
        d == IF g \in DOMAIN acc THEN acc[g] ELSE done[g]
    IN IF m = Self THEN d.own ELSE d.kids[m]

C7_FixMarksBuildComplete ==
    (fres.kind = "fix" /\ fres.success) =>
        /\ SessFile("task", "success", fres.session_id) \in FixedTaskDir.sf
        /\ \A i \in 1..Len(sessions) :
              (/\ sessions[i].title = "Execute"
               /\ <<sessions[i].group, sessions[i].member>> = fres.task_name)
                  => sessions[i].pass <= fres.pass
        /\ \A m \in DOMAIN ex :
              (ex[m].pass > fres.pass /\ TaskName(cur, m) = fres.task_name
                  /\ ex[m].pc # "start") =>
                  /\ ex[m].pc \in VerificationPositions
                  /\ ex[m].pc = "fail" =>
                        ex[m].fail.failureType \in {"test_session", "test_verification"}

\* the resume after a successful fix has prompted the verification of the
\* fixed task
C7_Witness ==
    /\ fres.kind = "fix" /\ fres.success
    /\ \E m \in DOMAIN ex :
          /\ ex[m].pass > fres.pass /\ TaskName(cur, m) = fres.task_name
          /\ ex[m].pc = "tmsgs"

\* ------------------------------------------------------------------------
\* C8: a call whose verification session ran ends in success (test.success
\* written, task Done) only if the final agent message contains PASS.
\* ------------------------------------------------------------------------
PASS == <<"P", "A", "S", "S">>

C8_PassOnlyOnPassToken ==
    \A m \in DOMAIN ex :
        (ex[m].pc = "ok" /\ ex[m].testMessages # NoTranscript) =>
            includes(lastAssistantText(ex[m].testMessages), PASS)

\* ------------------------------------------------------------------------
\* C9: a build transcript read without transport error and carrying no
\* success/failure marker is treated as success: task.success.<sid>.md and
\* work.md are persisted and the call proceeds to verification (read here
\* for the behaviours in which every writeFile succeeds).
\* ------------------------------------------------------------------------
Markers == {"<success>", "</success>", "<failure>", "</failure>"}

CarriesMarker(messages) ==
    \E i \in 1..Len(messages) : \E j \in 1..Len(messages[i].parts) :
        \E k \in 1..Len(messages[i].parts[j].text) : messages[i].parts[j].text[k] \in Markers

HasAssistant(messages) == \E i \in 1..Len(messages) : messages[i].role = "assistant"

BuildPersisted(m) ==
    /\ SessFile("task", "success", ex[m].sid) \in currentDir(m).sf
    /\ currentDir(m).work.has
    /\ ex[m].bsid = ex[m].sid
    /\ ex[m].pc \in VerificationPositions
    /\ ex[m].pc = "fail" => ex[m].fail.failureType \in {"test_session", "test_verification"}

C10_MissingPromptIsToolError ==
    \A m \in DOMAIN ex :
        (SeenBuildSuccess(m) = {} /\ ~currentDir(m).bp /\ ex[m].pc # "start") =>
            /\ ex[m].pc = "fail"
            /\ ex[m].fail.failureType = "tool_error"
            /\ \A i \in 1..Len(sessions) :
                  ~(sessions[i].group = cur /\ sessions[i].member = m
                      /\ sessions[i].pass = ex[m].pass)

\* a task without build.prompt.md and without transcript was reported
C10_Witness ==
    /\ rres.kind = "task" /\ rres.report.failure_type = "tool_error"
    /\ \E m \in DOMAIN ex : SeenBuildSuccess(m) = {} /\ ~currentDir(m).bp /\ ex[m].pc = "fail"

\* ------------------------------------------------------------------------
\* C11: a build whose final agent message carries a <failure> marker returns
\* execute_failure with the marker's text as details; the step that reads
\* the transcript writes no task.success transcript and no verification
\* session is created for the task in that pass.
\* ------------------------------------------------------------------------
\* the <failure> marker of the final assistant message: <<found, text>>
FinalFailureMarker(messages) ==
    IF HasAssistant(messages)
    THEN TagMatch(MessageText(LastOf(SelectSeq(messages, IsAssistant))),
                  "<failure>", "</failure>")
    ELSE <<FALSE, <<>> >>

C11_FailureMarkerIsExecuteFailure ==
    [][\A m \in DOMAIN ex' :
          (/\ ex'[m].buildMessages # NoTranscript
           /\ FinalFailureMarker(ex'[m].buildMessages)[1]) =>
              /\ ex'[m].pc = "fail"
              /\ ex'[m].fail.failureType = "execute_failure"
              /\ ex'[m].fail.failureDetails = Trim(FinalFailureMarker(ex'[m].buildMessages)[2])
              /\ (SessionsOf(m, "Test"))' = {}
              /\ (m \in DOMAIN ex /\ ex[m].pc = "bmsgs") =>
                    {f \in (taskDir(m))'.sf : f.st = "success"}
                        = {f \in taskDir(m).sf : f.st = "success"}
      ]_vars

\* resume reported a task whose build agent answered <failure> fix it </failure>
C11_Witness ==
    /\ rres.kind \in {"task", "group"}
    /\ \E m \in DOMAIN ex :
          /\ ex[m].buildMessages # NoTranscript
          /\ FinalFailureMarker(ex[m].buildMessages)[1]
          /\ ex[m].fail.failureDetails = <<"fix", "it">>
          /\ taskDir(m).tp

\* ------------------------------------------------------------------------
\* C12: an error raised by session.create, session.prompt or
\* session.messages ends the call with task_session in the build phase and
\* with test_session in the verification phase, never with another kind and
\* never with success. A call that ends inside a try block without having
\* read the transcript ended on such an error.
\* ------------------------------------------------------------------------
C12_TransportErrorKinds ==
    [][\A m \in DOMAIN ex \cap DOMAIN ex' :
          /\ (/\ ex[m].pc \in {"bcreate", "bprompt", "bmsgs"} /\ Settled(ex'[m])
              /\ ex'[m].buildMessages = NoTranscript) =>
                (ex'[m].pc = "fail" /\ ex'[m].fail.failureType = "task_session")
          /\ (/\ ex[m].pc \in {"tcreate", "tprompt", "tmsgs"} /\ Settled(ex'[m])
              /\ ex'[m].testMessages = NoTranscript) =>
                (ex'[m].pc = "fail" /\ ex'[m].fail.failureType = "test_session")
      ]_vars

\* a group reported with a build member failed on a session it had created
\* and a verification member failed on session.create
C12_Witness ==
    /\ rres.kind = "group"
    /\ \E a, b \in DOMAIN ex :
          /\ ex[a].buildMessages = NoTranscript /\ ex[a].pc = "fail"
          /\ ex[a].fail.failureType = "task_session" /\ ex[a].sid # "error"
          /\ ex[b].testMessages = NoTranscript /\ ex[b].pc = "fail"
          /\ ex[b].fail.failureType = "test_session" /\ ex[b].tsid = "error"

\* ------------------------------------------------------------------------
\* C13: every failure report returned by resume carries a build_session_id
\* that names a build session of the failing task (created for it, or named
\* by the build-success transcript its call found); for a failure that
\* originated in verification, session_id differs from it.
\* ------------------------------------------------------------------------
\* the failure reports of the value returned by the last resume
Reports ==
    IF rres.kind = "task" THEN {rres.report}
    ELSE IF rres.kind = "group" THEN rres.failures
    ELSE {}

\* ids of the build sessions of the task a report names
BuildSessionsOf(r) ==
    {sessions[i].id : i \in {k \in 1..Len(sessions) :
                               /\ sessions[k].title = "Execute"
                               /\ TaskName(sessions[k].group, sessions[k].member) = r.task_name}}
    \cup {extractSessionId(f) : f \in SeenBuildSuccess(r.task_name[2])}

C13_BuildSessionIdInEveryReport ==
    \A r \in Reports :
        /\ r.build_session_id \in BuildSessionsOf(r)
        /\ r.failure_type \in {"test_session", "test_verification"} =>
              r.session_id # r.build_session_id

\* C13 as amended: the id names a build session whenever the task has one;
\* when the build prompt could not be read it is "read_error", and when
\* session.create of the build failed it is "error"
C13_BuildSessionIdAmended ==
    \A r \in Reports :
        /\ r.failure_type \in {"test_session", "test_verification"} =>
              /\ r.build_session_id \in BuildSessionsOf(r)
              /\ r.session_id # r.build_session_id
        /\ r.failure_type = "execute_failure" =>
              (r.build_session_id = r.session_id /\ r.build_session_id \in BuildSessionsOf(r))
        /\ r.failure_type = "task_session" =>
              /\ r.build_session_id = r.session_id
              /\ r.build_session_id \in BuildSessionsOf(r) \cup {"error"}
              /\ r.build_session_id = "error" =>
                    SessionsOf(r.task_name[2], "Execute") = {}
        /\ r.failure_type = "tool_error" =>
              (r.build_session_id = "read_error" /\ r.session_id = "read_error")

\* a verification failure was reported for a task built in the same pass
C13_Witness ==
    \E r \in Reports :
        /\ r.failure_type = "test_verification"
        /\ r.build_session_id \in {sessions[i].id : i \in SessionsOf(r.task_name[2], "Execute")}
        /\ r.session_id \in {sessions[i].id : i \in SessionsOf(r.task_name[2], "Test")}

\* ------------------------------------------------------------------------
\* C14: a call whose build phase succeeded (or was reused) and whose
\* directory has no test.prompt.md, or already held a test.success.<id>.md,
\* creates no verification session and reports the task Done.
\* ------------------------------------------------------------------------
C14_DoneWithoutVerification ==
    \A m \in DOMAIN ex :
        (/\ ex[m].bsid # ""
         /\ \/ ~currentDir(m).tp
            \/ \E f \in ex[m].seen : f.pre = "test" /\ f.st = "success")
            => /\ ex[m].pc \in {"tcheck", "ok"}
               /\ SessionsOf(m, "Test") = {}

\* a group in which one member without test.prompt.md was built in this
\* pass and its sibling, verified in an earlier pass, are both Done
C14_Witness ==
    \E a, b \in DOMAIN ex :
        /\ ~currentDir(a).tp /\ ex[a].pc = "ok"
        /\ ex[a].bsid = ex[a].sid /\ ex[a].sid # "error"
        /\ currentDir(b).tp /\ ex[b].pc = "ok"
        /\ \E f \in ex[b].seen : f.pre = "test" /\ f.st = "success"

\* ------------------------------------------------------------------------
\* C15: no internal retry. Within one invocation of resume at most one build
\* session and at most one verification session are created per task, and
\* the invocation ends at the first group that fails: resume has returned,
\* the failed group is the last one executed and it is still in accepted/.
\* ------------------------------------------------------------------------
C15_NoInternalRetry ==
    /\ \A i, j \in 1..Len(sessions) :
          (/\ sessions[i].pass = sessions[j].pass /\ sessions[i].title = sessions[j].title
           /\ sessions[i].group = sessions[j].group /\ sessions[i].member = sessions[j].member)
              => i = j
    /\ Reports # {} =>
          /\ rpc = "idle" /\ cur \in DOMAIN acc
          /\ \A r \in Reports : r.task_name[1] = cur
          /\ \A i \in 1..Len(sessions) :
                (sessions[i].pass = pass /\ sessions[i].group # cur)
                    => sessions[i].group \in DOMAIN done

\* a second invocation returned a failure for a task that got a build and a
\* verification session in the first invocation and was verified again
C15_Witness ==
    /\ Reports # {} /\ pass = 2
    /\ \E i, j, k \in 1..Len(sessions) :
          /\ sessions[i].pass = 1 /\ sessions[i].title = "Execute"
          /\ sessions[j].pass = 1 /\ sessions[j].title = "Test"
          /\ sessions[k].pass = 2 /\ sessions[k].title = "Test"
          /\ sessions[i].group = cur /\ sessions[j].group = cur /\ sessions[k].group = cur

\* ------------------------------------------------------------------------
\* C16: resume never ends by raising an error that arose while a task was
\* executed (session create/prompt/read, or the recording of a transcript):
\* every such error becomes a failure report.
\* ------------------------------------------------------------------------
C16_TaskErrorsBecomeReports ==
    ~(/\ rpc = "idle" /\ rres.kind = "raised"
      /\ \E m \in DOMAIN ex : ex[m].pc = "threw")

\* ------------------------------------------------------------------------
\* C17: a session wait is bounded. When the agent service never completes a
\* prompt, the await of the group can still end: once every call of the
\* group has settled or is waiting on such a prompt, resume is able to
\* return (with task_session or test_session for the waiting call).
\* ------------------------------------------------------------------------
C17_StalledSendStillReturns ==
    (/\ rpc = "wait"
     /\ \A m \in DOMAIN ex : Settled(ex[m]) \/ ex[m].pc \in {"bstall", "tstall"})
        => ENABLED ResumeAwait

\* ------------------------------------------------------------------------
\* C18: abort_plan_sessions sends an abort request to every session that is
\* active for the plan when it is invoked, the sessions of executions still
\* in flight included.
\* ------------------------------------------------------------------------
C18_AbortReachesActiveSessions ==
    abort.kind = "done" => abort.active \subseteq abort.sent

\* ------------------------------------------------------------------------
\* C19: resume treats a task directory that carries the .skipped marker as
\* Done: no build session and no verification session is created for it.
\* ------------------------------------------------------------------------
C19_SkippedGetsNoSession ==
    \A i \in 1..Len(sessions) :
        LET g == IF sessions[i].group \in DOMAIN acc THEN acc[sessions[i].group]
                 ELSE done[sessions[i].group]
            d == IF sessions[i].member = Self THEN g.own ELSE g.kids[sessions[i].member]
        IN ~d.skipped

\* ------------------------------------------------------------------------
\* C20: in the tree built by scanTaskTree/organizeIntoTree the groups made
\* of numbered entries appear in strictly ascending numeric order of their
\* prefix (2 before 9 before 10), and every task of such a group carries
\* that prefix.
\* ------------------------------------------------------------------------
C20_NumericGroupOrder ==
    tree.kind = "tree" =>
        \A i, j \in 1..Len(tree.groups) :
            \A a \in 1..Len(tree.groups[i]), b \in 1..Len(tree.groups[j]) :
                LET x == tree.groups[i][a]
                    y == tree.groups[j][b]
                IN (Len(x.dirName.d) >= 1 /\ Len(y.dirName.d) >= 1) =>
                      /\ i < j => parseInt(x.dirName.d) < parseInt(y.dirName.d)
                      /\ i = j => parseInt(x.dirName.d) = parseInt(y.dirName.d)

\* the listing 0-a, 2-c, 10-b, 9-d was scanned into the groups 0, 2, 9, 10
C20_Witness ==
    /\ [i \in 1..Len(planDir.accepted) |-> planDir.accepted[i].e]
          = <<Entry(<<0>>, "a"), Entry(<<2>>, "c"), Entry(<<1, 0>>, "b"), Entry(<<9>>, "d")>>
    /\ tree.kind = "tree" /\ Len(tree.groups) = 4
    /\ tree.groups[3][1].dirName = Entry(<<9>>, "d")
    /\ tree.groups[4][1].dirName = Entry(<<1, 0>>, "b")

\* ------------------------------------------------------------------------
\* C30: a verification session is created for a task only when its
\* directory holds a build-success transcript (task.success.<id>.md, written
\* by this pass, by an earlier pass or by fix_task), and a call whose build
\* phase failed creates no verification session in its pass.
\* ------------------------------------------------------------------------
C30_VerificationOnlyAfterBuildSuccess ==
    /\ \A i \in 1..Len(sessions) :
          sessions[i].title = "Test" =>
             LET g == IF sessions[i].group \in DOMAIN acc THEN acc[sessions[i].group]
                      ELSE done[sessions[i].group]
                 d == IF sessions[i].member = Self THEN g.own ELSE g.kids[sessions[i].member]
             IN \E f \in d.sf : f.pre = "task" /\ f.st = "success"
    /\ \A m \in DOMAIN ex :
          ex[m].fail.failureType \in {"tool_error", "execute_failure", "task_session"}
             => SessionsOf(m, "Test") = {}

\* a task was built and then verified in the same pass, and the verification
\* found a failure
C30_Witness ==
    /\ \E i, j \in 1..Len(sessions) :
          /\ i < j /\ sessions[i].title = "Execute" /\ sessions[j].title = "Test"
          /\ sessions[i].group = sessions[j].group /\ sessions[i].member = sessions[j].member
          /\ sessions[i].pass = sessions[j].pass
    /\ \E m \in DOMAIN ex : ex[m].fail.failureType = "test_verification"

\* ------------------------------------------------------------------------
\* C21: in the tree built from a directory, the entries without a numeric
\* prefix all lie in one group, which is the last one and holds nothing
\* else; no group is empty, so without such an entry there is no such group.
\* ------------------------------------------------------------------------
C21_OneTrailingUnnumberedGroup ==
    tree.kind = "tree" =>
        LET last == Len(tree.groups)
            unnumbered == {i \in 1..Len(planDir.accepted) :
                              /\ planDir.accepted[i].e \notin NotTaskDirectories
                              /\ Len(planDir.accepted[i].e.d) = 0}
        IN /\ \A g \in 1..last : tree.groups[g] # <<>>
           /\ \A g \in 1..last : \A a \in 1..Len(tree.groups[g]) :
                 Len(tree.groups[g][a].dirName.d) = 0 =>
                    /\ g = last
                    /\ \A b \in 1..Len(tree.groups[g]) : Len(tree.groups[g][b].dirName.d) = 0
           /\ \A i \in unnumbered :
                 \E a \in 1..Len(tree.groups[last]) :
                    tree.groups[last][a].dirName = planDir.accepted[i].e
           /\ unnumbered = {} =>
                 \A g \in 1..last : \A a \in 1..Len(tree.groups[g]) :
                    Len(tree.groups[g][a].dirName.d) >= 1

\* zz and yy, listed around 9-d and 2-c, were scanned into one third group
C21_Witness ==
    /\ [i \in 1..Len(planDir.accepted) |-> planDir.accepted[i].e]
          = <<Entry(<<>>, "zz"), Entry(<<9>>, "d"), Entry(<<>>, "yy"), Entry(<<2>>, "c")>>
    /\ tree.kind = "tree" /\ Len(tree.groups) = 3
    /\ Len(tree.groups[3]) = 2

\* ------------------------------------------------------------------------
\* C22: when the earliest group of the plan that is not fully complete
\* (tested or skipped) contains a task with status busy, next_task finds the
\* empty list: "waiting", not "all_complete" and no task.
\* ------------------------------------------------------------------------
C22_BusyGroupYieldsEmptyList ==
    found.status # "none" =>
        LET groups == buildCombinedTaskTree(planDir).groups
            open == {g \in 1..Len(groups) :
                        \E i \in 1..Len(groups[g]) :
                           groups[g][i].status # "tested" /\ ~groups[g][i].skipped}
        IN \A g \in open :
              ((\A h \in open : g <= h)
               /\ \E i \in 1..Len(groups[g]) : groups[g][i].status = "busy")
                 => found.status = "waiting"

\* ------------------------------------------------------------------------
\* C23: no task that next_task finds has subtasks of which one is neither
\* tested nor skipped; when a task of the earliest open group has such a
\* subtask, what is found are subtasks, not the tasks of the group.
\* ------------------------------------------------------------------------
C23_ParentWaitsForSubtasks ==
    LET complete(x) == x.status = "tested" \/ x.skipped
        members(t) == UNION {{t.groups[g][i] : i \in 1..Len(t.groups[g])} : g \in 1..Len(t.groups)}
        pending(x) == \E s \in members(x.subtasks) : ~complete(s)
        groups == buildCombinedTaskTree(planDir).groups
        open == {g \in 1..Len(groups) : \E i \in 1..Len(groups[g]) : ~complete(groups[g][i])}
        returned == {found.tasks[i] : i \in 1..Len(found.tasks)}
    IN found.status # "none" =>
          /\ \A x \in returned : ~pending(x)
          /\ \A g \in open :
                LET parents == {groups[g][i] : i \in 1..Len(groups[g])}
                    waiting == {x \in parents : ~complete(x) /\ pending(x)}
                IN ((\A h \in open : g <= h) /\ waiting # {})
                     => /\ returned \cap parents = {}
                        /\ returned \subseteq UNION {members(x.subtasks) : x \in waiting}

C23_Witness ==
    /\ found.status = "ready"
    /\ \E i \in 1..Len(planDir.accepted) :
          /\ planDir.accepted[i].e = Entry(<<1>>, "b")
          /\ planDir.accepted[i].sub # <<>>
          /\ ~planDir.accepted[i].sub[1].skipped
          /\ ~planDir.accepted[i].skipped
    /\ \E i \in 1..Len(found.tasks) : found.tasks[i].dirName = Entry(<<0>>, "s")

\* ------------------------------------------------------------------------
\* C24: for a plan each of whose tasks is in tested/ or carries the .skipped
\* marker, next_task answers "all_complete" (findNextExecutableTasks
\* returned null).
\* ------------------------------------------------------------------------
C24_AllTestedOrSkippedIsAllComplete ==
    LET groups == buildCombinedTaskTree(planDir).groups
    IN (/\ found.status # "none"
        /\ \A g \in 1..Len(groups) : \A i \in 1..Len(groups[g]) :
              groups[g][i].status = "tested" \/ groups[g][i].skipped)
          => found.status = "all_complete" /\ found.tasks = <<>>

C24_Witness ==
    /\ found.status = "all_complete"
    /\ Len(planDir.tested) = 1
    /\ Len(planDir.accepted) = 1 /\ planDir.accepted[1].skipped
    /\ Len(planDir.busy) = 1 /\ planDir.busy[1].skipped

C26_ResetBusyTasksMovesAll ==
    [][(abort_plan_sessions /\ "taskSessions" \in DOMAIN readSessionMeta(meta)) =>
          LET was == {planDir.busy[i] : i \in 1..Len(planDir.busy)}
              task(x) == x.e \notin NotTaskDirectories
              before == {x \in was : task(x)}
          IN /\ sres'.kind = "ok" /\ sres'.moved = Cardinality(before)
             /\ \A i \in 1..Len(planDir'.busy) : ~task(planDir'.busy[i])
             /\ \A x \in before : \E i \in 1..Len(planDir'.accepted) : planDir'.accepted[i] = x
             /\ Len(planDir'.accepted) = Len(planDir.accepted) + Cardinality(before)]_vars

C26_Witness ==
    /\ abort.kind = "done" /\ sres.kind = "ok"
    /\ "moved" \in DOMAIN sres /\ sres.moved = 2
    /\ Len(planDir.busy) = 1 /\ Len(planDir.accepted) = 2

\* ------------------------------------------------------------------------
\* C27: moveTaskStatus(plan, task, from, to): a task present in from is
\* afterwards present in to and absent from from; for a task absent from
\* from the call fails with the not-found error.
\* ------------------------------------------------------------------------
C27_MoveTaskStatus ==
    [][\A t \in SdkTasks, f, to \in {"accepted", "busy", "tested"} :
          moveTaskStatus(t, f, to) =>
             IF stat(planDir[f], t) # {}
             THEN stat(planDir'[to], t) # {} /\ stat(planDir'[f], t) = {}
             ELSE sres' = [kind |-> "error", message |-> "Task directory not found"]]_vars

\* C27 as amended: the same for from # to, where the call also succeeds and
\* leaves every other task in place; with from = to a task that is present
\* stays where it is and the call succeeds; for an absent task the call
\* fails with the not-found error and no task moves.
C27_MoveTaskStatusAmended ==
    [][\A t \in SdkTasks, f, to \in {"accepted", "busy", "tested"} :
          moveTaskStatus(t, f, to) =>
             IF stat(planDir[f], t) = {}
             THEN /\ sres' = [kind |-> "error", message |-> "Task directory not found"]
                  /\ \A s \in {"accepted", "busy", "tested"} : planDir'[s] = planDir[s]
             ELSE IF f = to
             THEN /\ sres'.kind = "ok"
                  /\ \A s \in {"accepted", "busy", "tested"} : planDir'[s] = planDir[s]
             ELSE /\ sres'.kind = "ok"
                  /\ stat(planDir'[to], t) # {} /\ stat(planDir'[f], t) = {}
                  /\ \A s \in {"accepted", "busy", "tested"} \ {f, to} : planDir'[s] = planDir[s]
                  /\ Len(planDir'[to]) = Len(planDir[to]) + 1
                  /\ Len(planDir'[f]) = Len(planDir[f]) - 1]_vars

C27_Witness ==
    /\ sres = [kind |-> "error", message |-> "Task directory not found"]
    /\ stat(planDir.tested, Entry(<<0>>, "a")) # {}
    /\ stat(planDir.busy, Entry(<<0, 1>>, "b")) # {}

\* ------------------------------------------------------------------------
\* C28: whatever .session.json holds, and also when it is missing, the
\* record that readSessionMeta returns and that updateSessionMeta hands to
\* its updater has a taskSessions mapping, and no call fails on the record.
\* ------------------------------------------------------------------------
C28_SessionMetaAlwaysValid ==
    /\ "taskSessions" \in DOMAIN readSessionMeta(meta)
    /\ sres # [kind |-> "error", message |-> "TypeError"]

\* ------------------------------------------------------------------------
\* C29: through every sequence of movePlanToStage, archivePlan and resume
\* the plan directory is under exactly one stage container; a move whose
\* source stage does not hold the plan fails with the not-found error and
\* leaves the plan where it was.
\* ------------------------------------------------------------------------
C29_PlanInExactlyOneStage ==
    /\ [](Cardinality(stage) = 1)
    /\ [][\A fromStage \in {"build", "review"}, toStage \in {"build", "review", ".archive"} :
             (movePlanToStage(fromStage, toStage) /\ fromStage \notin stage) =>
                /\ stage' = stage
                /\ sres' = [kind |-> "error", message |-> "Plan directory not found"]]_vars

C29_Witness ==
    /\ stage = {".archive"} /\ rres.kind = "done" /\ pass = 2
    /\ sres = [kind |-> "error", message |-> "Plan directory not found"]

\* ------------------------------------------------------------------------
\* C31: for a task whose directory already held task.success.<id>.md and,
\* when it has test.prompt.md, test.success.<id>.md when resume called
\* executeTask for it, that call creates no session, also when its group is
\* run again after a sibling failed.
\* ------------------------------------------------------------------------
C31_CompleteTaskGetsNoSession ==
    [][Len(sessions') > Len(sessions) =>
          LET s == sessions'[Len(sessions')]
              m == s.member
          IN ~(/\ findSessionFile(ex[m].seen, "task", "success") # {}
               /\ taskDir(m).tp => findSessionFile(ex[m].seen, "test", "success") # {})]_vars

C31_Witness ==
    /\ pass = 2 /\ cur = Entry(<<0, 1>>, "concurrent_group")
    /\ DOMAIN ex = {MemberA, MemberB}
    /\ ex[MemberB].pc = "ok" /\ ex[MemberB].pass = 2
    /\ findSessionFile(ex[MemberB].seen, "test", "success") # {}
    /\ \E i \in 1..Len(sessions) : sessions[i].pass = 2 /\ sessions[i].member = MemberA
    /\ \A i \in 1..Len(sessions) : sessions[i].pass = 2 => sessions[i].member # MemberB

\* ------------------------------------------------------------------------
\* C32: executeParallelTasks never has more than `limit` executeTask calls
\* in flight at the same time, for every limit >= 1 and every number of
\* tasks.
\* ------------------------------------------------------------------------
C32_AtMostLimitInFlight ==
    par.pc # "none" => Cardinality(par.running) <= par.limit

C32_Witness ==
    /\ par.pc = "race" /\ par.limit = 2 /\ par.n = 4 /\ par.i = 4
    /\ Cardinality(par.running) = 2

\* ------------------------------------------------------------------------
\* C33: after any sequence of execute_task calls, the retryCount that
\* .session.json holds for a task is the number of executions of that task
\* that failed, and the return of a call changes the entry of no other task.
\* ------------------------------------------------------------------------
C33_RetryCountCountsFailures ==
    /\ [](\A t \in SdkTasks :
             LET m == readSessionMeta(meta)
             IN svc.failed[t] = IF "taskSessions" \in DOMAIN m /\ t \in DOMAIN m.taskSessions
                                THEN m.taskSessions[t].retryCount ELSE 0)
    /\ [][\A t \in SdkTasks :
             LET entries(file) == IF "taskSessions" \in DOMAIN readSessionMeta(file)
                                  THEN readSessionMeta(file).taskSessions ELSE <<>>
             IN (t \notin DOMAIN sdk \/ t \in DOMAIN sdk') =>
                   /\ (t \in DOMAIN entries(meta)) = (t \in DOMAIN entries(meta'))
                   /\ t \in DOMAIN entries(meta) => entries(meta')[t] = entries(meta)[t]]_vars

\* ------------------------------------------------------------------------
\* C34: a fix_task whose prompt or whose read of the session fails (the
\* session does not exist, the service answers with an error) returns
\* success:false and writes no task.success transcript: accepted/ is as it
\* was, so the build step of the task is not marked complete.
\* ------------------------------------------------------------------------
C34_FailedFixWritesNothing ==
    [][fixes' = fixes + 1 =>
          /\ ~SessionExists(fres'.session_id) => ~fres'.success
          /\ ~fres'.success => acc' = acc
          /\ acc' # acc => fres'.success]_vars

C34_Witness ==
    /\ fres.kind = "fix" /\ ~fres.success
    /\ ~SessionExists(fres.session_id)
    /\ findSessionFile(IF fres.task_name[2] = Self THEN acc[fres.task_name[1]].own.sf
                       ELSE acc[fres.task_name[1]].kids[fres.task_name[2]].sf,
                       "task", "success") = {}

\* ------------------------------------------------------------------------
\* C35: fix_task writes task.success.<session_id>.md only when the final
\* message of the agent in the fix exchange carries no <failure> marker: a
\* fix in which the agent reports failure again leaves the build step not
\* marked complete.
\* ------------------------------------------------------------------------
C35_FixSuccessOnlyWithoutFailureMarker ==
    [][(fixes' = fixes + 1 /\ acc' # acc) =>
          \A i \in 1..Len(fres'.summary) : fres'.summary[i] # "<failure>"]_vars

\* ------------------------------------------------------------------------
\* C36: a resume invoked for a plan that is not under build/ (a second
\* resume after the promotion to review/) returns an error result: it
\* neither raises nor reports done:true, and the plan under review/ stays
\* as it is.
\* ------------------------------------------------------------------------
C36_ResumeWithoutPlanReturnsError ==
    [][(rpc = "loop" /\ rpc' = "idle" /\ "build" \notin stage) =>
          /\ rres'.kind \notin {"raised", "done"}
          /\ stage' = stage /\ acc' = acc /\ done' = done]_vars

\* ------------------------------------------------------------------------
\* C37: at every point of any sequence of moveTaskStatus, resetBusyTasks and
\* resume operations, each task directory of the plan is in exactly one of
\* accepted/, busy/, tested/ and done/: none is duplicated, none is lost
\* ------------------------------------------------------------------------
C37_EachTaskInExactlyOneContainer ==
    \A t \in SdkTasks :
        Cardinality(stat(planDir.accepted, t)) + Cardinality(stat(planDir.busy, t))
          + Cardinality(stat(planDir.tested, t)) + Cardinality(stat(planDir.done, t)) = 1

C37_Witness ==
    /\ stat(planDir.done, Entry(<<0, 1>>, "b")) # {}
    /\ stat(planDir.tested, Entry(<<0>>, "a")) # {}
    /\ abort.kind = "done"
    /\ rres.kind = "done" /\ "review" \in stage

\* ------------------------------------------------------------------------
\* C38: a moveTaskStatus call that fails because the source task directory
\* is absent leaves the plan's directory tree as it was: no status container
\* is created, removed or modified
\* ------------------------------------------------------------------------
C38_FailedMoveLeavesTreeUnchanged ==
    [][\A t \in SdkTasks, f, to \in {"accepted", "busy", "tested"} :
          (moveTaskStatus(t, f, to) /\ stat(planDir[f], t) = {}) => planDir' = planDir]_vars

\* ------------------------------------------------------------------------
\* C39: findNextExecutableTasks returns null only when every task of the
\* plan, subtasks included, is tested or skipped; while any task is accepted
\* or busy the result is a list, never null
\* ------------------------------------------------------------------------
C39_NullOnlyWhenAllTestedOrSkipped ==
    LET RECURSIVE all(_)
        all(t) == UNION {UNION {{t.groups[g][i]} \cup all(t.groups[g][i].subtasks) :
                                   i \in 1..Len(t.groups[g])} : g \in 1..Len(t.groups)}
        tasks == all(buildCombinedTaskTree(planDir))
    IN /\ found.status = "all_complete" => \A x \in tasks : x.status = "tested" \/ x.skipped
       /\ (found.status # "none" /\ \E x \in tasks : x.status \in {"accepted", "busy"})
             => found.status \in {"ready", "waiting"}

\* C39 as the code has it: null only when every top-level task is tested or
\* carries .skipped; while a top-level task is neither, the result is a list
C39_NullOnlyWhenTopLevelTestedOrSkipped ==
    LET groups == buildCombinedTaskTree(planDir).groups
        open == \E g \in 1..Len(groups) : \E i \in 1..Len(groups[g]) :
                    ~(groups[g][i].status = "tested" \/ groups[g][i].skipped)
    IN /\ found.status = "all_complete" => ~open
       /\ (found.status # "none" /\ open) => found.status \in {"ready", "waiting"}

C39_Witness ==
    /\ found.status = "waiting"
    /\ Len(planDir.tested) = 2 /\ Len(planDir.busy) = 1
    /\ ~planDir.busy[1].skipped /\ planDir.busy[1].e = Entry(<<2>>, "c")

\* ------------------------------------------------------------------------
\* C40: when every call to the agent service returns, every resume
\* invocation terminates, and it executes each group that was in accepted/
\* at most once: a group is chosen from accepted/, it has left accepted/ for
\* done/ when the loop goes round, and only create_next_task puts a
\* directory into accepted/
\* ------------------------------------------------------------------------
C40_ResumeTerminates ==
    /\ (rpc # "idle") ~> (rpc = "idle")
    /\ [][/\ (rpc = "loop" /\ rpc' = "wait") => cur' \in DOMAIN acc
          /\ (rpc = "wait" /\ rpc' = "loop")
                => cur \in DOMAIN acc /\ cur \notin DOMAIN acc' /\ cur \in DOMAIN done'
          /\ DOMAIN acc' \subseteq DOMAIN acc \/ authored' = authored + 1]_vars

C40_Witness ==
    /\ rpc = "idle" /\ pass = 1 /\ authored = 0
    /\ rres = [kind |-> "done", done |-> TRUE]
    /\ Cardinality(DOMAIN done) >= 2 /\ DOMAIN acc = {}

====
